---- MODULE Spec2Model ----
(***************************************************************************)
(* Model of the S-330 editor's device communication layer:                 *)
(*   - the Web MIDI adapter's SysEx frame reassembly (WebMidiAdapter.ts),   *)
(*   - the device data store and the pages' progressive bank loading       *)
(*     (deviceDataStore, TonesPage.tsx, PlayPage.tsx),                     *)
(*   - the envelope editor's mutation API (ToneList.tsx, EnvelopeEditor).  *)
(***************************************************************************)
EXTENDS Integers, Sequences, FiniteSets, TLC

(***************************************************************************)
(* Bounds of the model                                                     *)
(***************************************************************************)
NumFrameBytes == 2      \* non-marker byte values 1..NumFrameBytes inside scenario frames
MaxChunkLen  == 2       \* longest chunk the free-running transport delivers
MaxBuf       == 3       \* cap on the length of sysExBuffer
MaxListeners == 2       \* cap on 'midimessage' listeners attached to the input
MaxFrameLen  == 5       \* longest frame of the reassembly scenario
MaxArg       == 9       \* envelope point arguments range over -MaxArg..MaxArg
MaxIdx       == 1       \* record indices 0..MaxIdx used by direct store calls
MaxTasks     == 2       \* async load call chains alive at the same time
MaxMounts    == 3       \* page mounts (navigations) in one run
MaxClicks    == 1       \* button clicks in one run
MaxEdits     == 1       \* editor updates in one run
MaxFailures  == 1       \* transport failures (rejections, timeouts) in one run
MaxZones     == 2       \* longest zone list given to zonesToArray
MaxCodecSteps == 2      \* zone codec conversions applied to one input
MaxDeviceId  == 2       \* device ids 0..MaxDeviceId (configured and in notifications)
MaxPayloadLen == 3      \* longest address-and-data byte sequence of a checksummed frame
MaxSlots     == 2       \* configuration slots the controller lists
MaxDeploys   == 2       \* deploy() calls on one orchestrator
MaxDeployers == 2       \* DAW deployers passed to one deploy()
MaxEditorSteps == 3     \* user actions on one zone editor

(***************************************************************************)
(* Program constants                                                       *)
(***************************************************************************)
SYSEX_START == 240      \* 0xF0
SYSEX_END   == 247      \* 0xF7
PATCHES_PER_BANK == 8
TONES_PER_BANK   == 8
TOTAL_PATCHES    == 16  \* 2 banks of 8
TOTAL_TONES      == 32  \* 4 banks of 8
MIN_KEY    == 12        \* first MIDI note of the tone mapping (entry 0)
MAX_KEY    == 120       \* last MIDI note of the tone mapping
TOTAL_KEYS == 109       \* entries of the tone mapping
MAX_TONE   == 31        \* highest tone number of a zone

\* the listener compares bytes with the two markers only: one other byte value
\* stands for every non-marker byte of a free-running chunk
DataBytes == {1}
Bytes     == DataBytes \cup {SYSEX_START, SYSEX_END}
Callbacks == {"cbA", "cbB"}

VARIABLES
    \* ---- createWebMidiAdapter closure state ----
    listeners,          \* Map<SysExCallback, listener>: callbacks that have a map entry
    inputListeners,     \* listeners attached to input, in attach order: [cb, mapped]
    sysExBuffer,        \* number[]
    isReceivingSysEx,   \* boolean
    \* ---- observation of the adapter ----
    lastCalls,          \* callback invocations of the latest midimessage event
    staleLen,           \* leading bytes of sysExBuffer buffered before the latest
                        \* F0-chunk that arrived while Receiving
    lastChunk,          \* the chunk of the latest midimessage event
    prevReceiving,      \* isReceivingSysEx before the latest midimessage event
    \* ---- reassembly scenario ----
    frame,              \* the frame being delivered in chunks
    pos,                \* number of bytes of frame delivered so far
    emitted,            \* all callback invocations since the scenario started
    \* ---- envelope editor ----
    envelope,           \* the S330Envelope last passed to onChange
    envLast,            \* the latest mutation call: [op, arg, before]
    \* ---- device data store (zustand) ----
    store,              \* [patches, tones, loadedPatchBanks, loadedToneBanks]
    storeLast,          \* the latest store action called directly: [name, fullBefore]
    \* ---- s330Store (loading flag, error, progress) ----
    isLoading,
    error,              \* "null" or "set"
    loadingProgress,    \* [shown, current]
    \* ---- pages ----
    page,               \* the mounted page: "none", "tones", "patches", "play"
    mount,              \* number of the current mount (each mount has its own
                        \* clientRef, hasInitiatedLoad ref and client)
    hasInitiatedLoad,   \* hasInitiatedLoad.current of the mounted page
    isConnected,        \* the connection status the pages read from the MIDI store
    autoLoads,          \* ghost: loads the effect of the mounted page has started
    tasks,              \* running async call chains: [pc, mount, ops, i, skip]
    clientCache,        \* per mount: the (kind, bank) ranges its client has cached
    \* ---- observation of the pages ----
    pageLast,           \* what the latest step of a load did: [type, task, kind, bank]
    opsBegun,           \* load operations begun so far: 0, 1, 2 (= two or more)
    clicks,             \* button clicks so far
    edits,              \* editor updates so far
    failures,           \* transport failures so far
    \* ---- zone codec (ToneZoneEditor) ----
    layer,              \* 1 or 2
    toneData,           \* the 109-entry tone array (<<>> while none was produced)
    zones,              \* the zone list: sequence of [startKey, endKey, tone]
    codecIn,            \* the input the conversions started from: [kind, toneData, zones]
    codecCur,           \* which form the latest conversion produced: "array" or "zones"
    codecSteps,         \* conversions applied to the input so far
    \* ---- parameter listener (useParameterListener) ----
    deviceId,           \* the configured device id (midiStore)
    hasCallback,        \* whether onParameterChange was given
    plMessage,          \* the latest message handed to handleSysEx
    plOut,              \* what handleSysEx did with it: [logs, notified, called]
    \* ---- frame checksum ----
    ckPayload,          \* address and data bytes of the frame built
    ckSum,              \* its checksum byte (-1 before it is computed)
    ckReceived,         \* the address and data bytes as received
    ckValid,            \* the validator's verdict: "none", "accepted", "rejected"
    \* ---- AutoDeployOrchestrator.deploy ----
    deploy,             \* the running deploy() call: position, locals, adapter calls
    deploys,            \* ghost: deploy() calls made so far
    \* ---- ToneZoneEditor (its props are layer and toneData) ----
    selectedZoneIndex,  \* 0-based index, -1 for null
    editingZone,        \* <<>> for null, <<zone>> for the staged zone
    edLast,             \* ghost: the latest two handlers run and the arrays before them
    edSteps,            \* ghost: user actions so far
    \* ---- useMidiLearn, one instance per zone editor ----
    learningTarget,     \* per instance: "null", "startKey", "endKey"
    lastLearnedNote,    \* per instance: the note learned last, -1 for null
    originalHandlers,   \* per instance: the handler its running effect saved
    onmidimessage,      \* the handler property of the MIDI input
    learnLast           \* ghost: the MIDI message handled last and the onLearn calls it made

adapterVars == <<listeners, inputListeners, sysExBuffer, isReceivingSysEx,
                 lastCalls, staleLen, lastChunk, prevReceiving>>
scenarioVars == <<frame, pos, emitted>>
envVars == <<envelope, envLast>>
storeVars == <<store, storeLast>>
pageVars == <<isLoading, error, loadingProgress, page, mount, hasInitiatedLoad,
             isConnected, autoLoads,
              tasks, clientCache, pageLast, opsBegun, clicks, edits, failures>>
codecVars == <<layer, toneData, zones, codecIn, codecCur, codecSteps>>
paramVars == <<deviceId, hasCallback, plMessage, plOut>>
sumVars == <<ckPayload, ckSum, ckReceived, ckValid>>
deployVars == <<deploy, deploys>>
editorVars == <<selectedZoneIndex, editingZone, edLast, edSteps>>
learnVars == <<learningTarget, lastLearnedNote, originalHandlers, onmidimessage, learnLast>>
moreVars == <<deployVars, editorVars, learnVars>>
restVars == <<codecVars, paramVars, sumVars, moreVars>>
vars == <<adapterVars, scenarioVars, envVars, storeVars, pageVars, restVars>>

(***************************************************************************)
(* Sequences helpers                                                       *)
(***************************************************************************)
SeqsUpTo(S, n) == UNION {[1..k -> S] : k \in 0..n}

Min(a, b) == IF a < b THEN a ELSE b
Max(a, b) == IF a > b THEN a ELSE b

RemoveAt(s, i) == SubSeq(s, 1, i - 1) \o SubSeq(s, i + 1, Len(s))

(***************************************************************************)
(* The 'midimessage' listener created by onSysEx(callback).                *)
(* st = [buf, rcv, out, stale]: the shared closure variables sysExBuffer   *)
(* and isReceivingSysEx, the callback invocations made so far, and the     *)
(* stale-prefix observation.                                               *)
(***************************************************************************)
ListenerBuffersWhenIdle(st, cb, data) ==
    IF Len(data) = 0 THEN st
    ELSE LET firstByte == data[1]
             lastByte  == data[Len(data)]
         IN  IF firstByte = SYSEX_START /\ lastByte = SYSEX_END
             THEN [st EXCEPT !.out = Append(@, [cb |-> cb, data |-> data, stale |-> FALSE])]
             ELSE IF firstByte = SYSEX_START /\ lastByte # SYSEX_END
             THEN [st EXCEPT !.buf = data, !.rcv = TRUE, !.stale = 0]
             ELSE IF st.rcv
             THEN LET pushed == st.buf \o data
                  IN  IF lastByte = SYSEX_END
                      THEN [buf |-> <<>>, rcv |-> FALSE, stale |-> 0,
                            out |-> Append(st.out, [cb |-> cb, data |-> pushed,
                                                    stale |-> st.stale > 0])]
                      ELSE [st EXCEPT !.buf = pushed]
             ELSE [st EXCEPT !.buf = st.buf \o data]

ListenerDropsBuffer(st, cb, data) ==
    IF Len(data) = 0 THEN st
    ELSE LET firstByte == data[1]
             lastByte  == data[Len(data)]
         IN  IF firstByte = SYSEX_START /\ lastByte = SYSEX_END
             THEN [st EXCEPT !.out = Append(@, [cb |-> cb, data |-> data, stale |-> FALSE])]
             ELSE IF firstByte = SYSEX_START /\ lastByte # SYSEX_END
             THEN [st EXCEPT !.buf = data, !.rcv = TRUE, !.stale = 0]
             ELSE IF st.rcv
             THEN IF lastByte = SYSEX_END
                  THEN [buf |-> <<>>, rcv |-> FALSE, stale |-> 0,
                        out |-> Append(st.out, [cb |-> cb, data |-> data,
                                                stale |-> st.stale > 0])]
                  ELSE [st EXCEPT !.buf = data]
             ELSE st

ListenerNoReceivingCheck(st, cb, data) ==
    IF Len(data) = 0 THEN st
    ELSE LET firstByte == data[1]
             lastByte  == data[Len(data)]
         IN  IF firstByte = SYSEX_START /\ lastByte = SYSEX_END
             THEN [st EXCEPT !.out = Append(@, [cb |-> cb, data |-> data, stale |-> FALSE])]
             ELSE IF firstByte = SYSEX_START /\ lastByte # SYSEX_END
             THEN [st EXCEPT !.buf = data, !.rcv = TRUE, !.stale = 0]
             ELSE IF lastByte = SYSEX_END
                  THEN [buf |-> <<>>, rcv |-> FALSE, stale |-> 0,
                        out |-> Append(st.out, [cb |-> cb, data |-> st.buf \o data,
                                                stale |-> st.stale > 0])]
                  ELSE [st EXCEPT !.buf = st.buf \o data]

Listener(st, cb, data) ==
    \* if (!e.data || e.data.length === 0) return;
    IF Len(data) = 0 THEN st
    ELSE LET firstByte == data[1]
             lastByte  == data[Len(data)]
         IN  \* Case 1: complete SysEx message
             IF firstByte = SYSEX_START /\ lastByte = SYSEX_END
             THEN [st EXCEPT !.out = Append(@, [cb |-> cb, data |-> data, stale |-> FALSE])]
             \* Case 2: start of chunked SysEx
             ELSE IF firstByte = SYSEX_START /\ lastByte # SYSEX_END
             THEN [st EXCEPT !.buf = data, !.rcv = TRUE, !.stale = 0]
             \* Case 3: middle or end of chunked SysEx
             ELSE IF st.rcv
             THEN LET pushed == st.buf \o data
                  IN  IF lastByte = SYSEX_END
                      THEN [buf |-> <<>>, rcv |-> FALSE, stale |-> 0,
                            out |-> Append(st.out, [cb |-> cb, data |-> pushed,
                                                    stale |-> st.stale > 0])]
                      ELSE [st EXCEPT !.buf = pushed]
             \* Case 4: regular MIDI message - ignore
             ELSE st

(***************************************************************************)
(* input dispatches one midimessage event to every attached listener, in   *)
(* attach order; all listeners share sysExBuffer and isReceivingSysEx.     *)
(***************************************************************************)
RECURSIVE DispatchFrom(_, _, _, _)
DispatchFrom(st, ls, i, data) ==
    IF i > Len(ls) THEN st
    ELSE DispatchFrom(Listener(st, ls[i].cb, data), ls, i + 1, data)

Dispatch(buf, rcv, stale, ls, data) ==
    DispatchFrom([buf |-> buf, rcv |-> rcv, out |-> <<>>, stale |-> stale], ls, 1, data)

\* A chunk that starts with the start marker while a partial frame is buffered
IsRestart(rcv, data) == rcv /\ Len(data) > 0 /\ data[1] = SYSEX_START

(***************************************************************************)
(* Adapter operations                                                      *)
(***************************************************************************)
InitAdapter ==
    /\ listeners = {}
    /\ inputListeners = <<>>
    /\ sysExBuffer = <<>>
    /\ isReceivingSysEx = FALSE
    /\ lastCalls = <<>>
    /\ staleLen = 0
    /\ lastChunk = <<>>
    /\ prevReceiving = FALSE

\* onSysEx(callback): listeners.set(callback, listener); input.addEventListener
OnSysEx(cb) ==
    /\ Len(inputListeners) < MaxListeners
    /\ listeners' = listeners \cup {cb}
    /\ inputListeners' =
         Append([i \in 1..Len(inputListeners) |->
                    IF inputListeners[i].cb = cb
                    THEN [inputListeners[i] EXCEPT !.mapped = FALSE]
                    ELSE inputListeners[i]],
                [cb |-> cb, mapped |-> TRUE])
    /\ lastCalls' = <<>>
    /\ UNCHANGED <<sysExBuffer, isReceivingSysEx, staleLen, lastChunk, prevReceiving>>

\* removeSysExListener(callback)
RemoveSysExListener(cb) ==
    /\ IF cb \in listeners
       THEN LET i == CHOOSE j \in 1..Len(inputListeners) :
                        inputListeners[j].cb = cb /\ inputListeners[j].mapped
            IN  /\ inputListeners' = RemoveAt(inputListeners, i)
                /\ listeners' = listeners \ {cb}
       ELSE UNCHANGED <<listeners, inputListeners>>
    /\ lastCalls' = <<>>
    /\ UNCHANGED <<sysExBuffer, isReceivingSysEx, staleLen, lastChunk, prevReceiving>>

\* the input port fires one midimessage event carrying the chunk data
MidiMessage(data) ==
    LET stale0 == IF IsRestart(isReceivingSysEx, data)
                  THEN Len(sysExBuffer) ELSE staleLen
        st == Dispatch(sysExBuffer, isReceivingSysEx, stale0, inputListeners, data)
    IN  /\ Len(st.buf) <= MaxBuf
        /\ sysExBuffer' = st.buf
        /\ isReceivingSysEx' = st.rcv
        /\ lastCalls' = st.out
        /\ staleLen' = st.stale
        /\ lastChunk' = data
        /\ prevReceiving' = isReceivingSysEx
        /\ UNCHANGED <<listeners, inputListeners>>

(***************************************************************************)
(* Reassembly scenario: one valid frame cut into consecutive non-empty     *)
(* chunks and delivered to an Idle adapter.                                *)
(***************************************************************************)
ValidFrames ==
    {<<SYSEX_START>> \o m \o <<SYSEX_END>> : m \in SeqsUpTo(1..NumFrameBytes, MaxFrameLen - 2)}

InitScenario ==
    /\ frame \in ValidFrames
    /\ pos = 0
    /\ emitted = <<>>

IdleScenario ==
    /\ frame = <<>>
    /\ pos = 0
    /\ emitted = <<>>

DeliverChunk(k) ==
    LET data == SubSeq(frame, pos + 1, pos + k)
        st == Dispatch(sysExBuffer, isReceivingSysEx, staleLen, inputListeners, data)
    IN  /\ pos + k <= Len(frame)
        /\ pos' = pos + k
        /\ sysExBuffer' = st.buf
        /\ isReceivingSysEx' = st.rcv
        /\ lastCalls' = st.out
        /\ emitted' = emitted \o st.out
        /\ staleLen' = st.stale
        /\ lastChunk' = data
        /\ prevReceiving' = isReceivingSysEx
        /\ UNCHANGED <<listeners, inputListeners, frame>>

(***************************************************************************)
(* Envelope editor (EnvelopeEditor in ToneList.tsx)                        *)
(***************************************************************************)
InitLevels == [i \in 1..8 |-> 127]
InitRates  == [i \in 1..8 |-> 1]

NoCall == [op |-> "none", arg |-> 0, before |-> <<>>]

InitEnvelope ==
    /\ \E sp \in 0..7, ep \in 1..8 :
          /\ sp < ep
          /\ envelope = [levels |-> InitLevels, rates |-> InitRates,
                         sustainPoint |-> sp, endPoint |-> ep]
    /\ envLast = NoCall

IdleEnvelope ==
    /\ envelope = [levels |-> InitLevels, rates |-> InitRates,
                   sustainPoint |-> 0, endPoint |-> 8]
    /\ envLast = NoCall

updateSustainPointMovesEnd(env, value) ==
    [env EXCEPT !.sustainPoint = value,
                !.endPoint = IF value >= env.endPoint THEN value + 1 ELSE env.endPoint]

updateSustainPoint(env, value) ==
    [env EXCEPT !.sustainPoint = Min(value, env.endPoint - 1)]

updateEndPointNoClamp(env, value) ==
    [env EXCEPT !.endPoint = value]

updateEndPointTruncates(env, value) ==
    [env EXCEPT !.endPoint = value,
                !.sustainPoint = Min(env.sustainPoint, value - 1),
                !.levels = [i \in 1..8 |-> IF i > value THEN 0 ELSE env.levels[i]]]

updateEndPoint(env, value) ==
    [env EXCEPT !.endPoint = value,
                !.sustainPoint = Min(env.sustainPoint, value - 1)]

updateLevel(env, index, value) ==
    [env EXCEPT !.levels[index + 1] = value]

updateRate(env, index, value) ==
    [env EXCEPT !.rates[index + 1] = IF value < 1 THEN 1 ELSE value]

updateLevelAndRate(env, index, level, rate) ==
    [env EXCEPT !.levels[index + 1] = level,
                !.rates[index + 1] = IF rate < 1 THEN 1 ELSE rate]

Args == (0 - MaxArg)..MaxArg

\* the points edited (the first and the last of the 8) and the values typed
\* or dragged: at and just outside both limits of a level or rate
PointIndices == {0, 7}
PointArgs == {0 - 1, 0, 128}

UpdateLevel(i, v) ==
    /\ envelope' = updateLevel(envelope, i, v)
    /\ envLast' = [op |-> "updateLevel", arg |-> v, before |-> envelope]

UpdateRate(i, v) ==
    /\ envelope' = updateRate(envelope, i, v)
    /\ envLast' = [op |-> "updateRate", arg |-> v, before |-> envelope]

UpdateLevelAndRate(i, l, r) ==
    /\ envelope' = updateLevelAndRate(envelope, i, l, r)
    /\ envLast' = [op |-> "updateLevelAndRate", arg |-> l, before |-> envelope]

UpdateSustainPoint(v) ==
    /\ envelope' = updateSustainPoint(envelope, v)
    /\ envLast' = [op |-> "updateSustainPoint", arg |-> v, before |-> envelope]

UpdateEndPoint(v) ==
    /\ envelope' = updateEndPoint(envelope, v)
    /\ envLast' = [op |-> "updateEndPoint", arg |-> v, before |-> envelope]

(***************************************************************************)
(* Device data store (useDeviceDataStore)                                  *)
(* A record is "undefined" (not loaded), "device" (decoded from the        *)
(* device) or "edited" (changed in an editor).  The loaded-bank arrays are *)
(* only appended to behind an includes() test and only read with           *)
(* includes(): they are sets.                                              *)
(***************************************************************************)
Undefined == "undefined"
Records   == {"device", "edited"}

PatchBanks == 0..((TOTAL_PATCHES \div PATCHES_PER_BANK) - 1)
ToneBanks  == 0..((TOTAL_TONES \div TONES_PER_BANK) - 1)

\* while (a.length < n) a.push(undefined)
PadTo(a, n) == IF Len(a) >= n THEN a ELSE a \o [i \in 1..(n - Len(a)) |-> Undefined]

\* a[index] = v on a JS array (index is 0-based)
SetAt(a, index, v) == [a EXCEPT ![index + 1] = v]

InitStoreState ==
    [patches |-> <<>>, tones |-> <<>>, loadedPatchBanks |-> {}, loadedToneBanks |-> {}]

setPatch(s, index, patch) ==
    [s EXCEPT !.patches = SetAt(PadTo(s.patches, TOTAL_PATCHES), index, patch)]

setPatches(s, patches) == [s EXCEPT !.patches = patches]

markPatchBankLoaded(s, bankIndex) ==
    IF bankIndex \in s.loadedPatchBanks THEN s
    ELSE [s EXCEPT !.loadedPatchBanks = @ \cup {bankIndex}]

isPatchBankLoaded(s, bankIndex) == bankIndex \in s.loadedPatchBanks

invalidatePatchCacheKeepsBanks(s) == [s EXCEPT !.patches = <<>>]

invalidatePatchCache(s) == [s EXCEPT !.patches = <<>>, !.loadedPatchBanks = {}]

setToneShifted(s, index, tone) ==
    LET padded == PadTo(s.tones, index + 2)
    IN  [s EXCEPT !.tones = SetAt(padded, index + 1, tone)]

setTone(s, index, tone) ==
    [s EXCEPT !.tones = SetAt(PadTo(s.tones, TOTAL_TONES), index, tone)]

setTones(s, tones) == [s EXCEPT !.tones = tones]

markToneBankLoaded(s, bankIndex) ==
    IF bankIndex \in s.loadedToneBanks THEN s
    ELSE [s EXCEPT !.loadedToneBanks = @ \cup {bankIndex}]

isToneBankLoaded(s, bankIndex) == bankIndex \in s.loadedToneBanks

invalidateToneCache(s) == [s EXCEPT !.tones = <<>>, !.loadedToneBanks = {}]

invalidateAllCache(s) ==
    [patches |-> <<>>, tones |-> <<>>, loadedPatchBanks |-> {}, loadedToneBanks |-> {}]

ensurePatchArraySize(s) ==
    IF Len(s.patches) >= TOTAL_PATCHES THEN s
    ELSE [s EXCEPT !.patches = PadTo(s.patches, TOTAL_PATCHES)]

ensureToneArraySize(s) ==
    IF Len(s.tones) >= TOTAL_TONES THEN s
    ELSE [s EXCEPT !.tones = PadTo(s.tones, TOTAL_TONES)]

\* selectLoadedPatches / selectLoadedTones: the records that are not undefined
LoadedIndices(a) == {i \in 0..(Len(a) - 1) : a[i + 1] # Undefined}

InitStore ==
    /\ store = InitStoreState
    /\ storeLast = [name |-> "none", fullBefore |-> FALSE]

\* one store action called directly on the store: one zustand set(), one
\* state every subscriber observes
StoreCall(name, s) ==
    /\ store' = s
    /\ storeLast' = [name |-> name,
                     fullBefore |-> /\ LoadedIndices(store.patches) # {}
                                    /\ LoadedIndices(store.tones) # {}
                                    /\ store.loadedPatchBanks # {}
                                    /\ store.loadedToneBanks # {}]

StoreIdx == 0..MaxIdx

StoreSetPatch == \E i \in StoreIdx : StoreCall("setPatch", setPatch(store, i, "device"))
StoreSetTone == \E i \in StoreIdx : StoreCall("setTone", setTone(store, i, "device"))
StoreSetPatches ==
    \E a \in {<<>>, PadTo(<<>>, TOTAL_PATCHES)} : StoreCall("setPatches", setPatches(store, a))
StoreSetTones ==
    \E a \in {<<>>, PadTo(<<>>, TOTAL_TONES)} : StoreCall("setTones", setTones(store, a))
StoreMarkPatchBank ==
    \E b \in PatchBanks : StoreCall("markPatchBankLoaded", markPatchBankLoaded(store, b))
StoreMarkToneBank ==
    \E b \in ToneBanks : StoreCall("markToneBankLoaded", markToneBankLoaded(store, b))
StoreInvalidatePatch == StoreCall("invalidatePatchCache", invalidatePatchCache(store))
StoreInvalidateTone == StoreCall("invalidateToneCache", invalidateToneCache(store))
StoreInvalidateAll == StoreCall("invalidateAllCache", invalidateAllCache(store))
StoreEnsurePatch == StoreCall("ensurePatchArraySize", ensurePatchArraySize(store))
StoreEnsureTone == StoreCall("ensureToneArraySize", ensureToneArraySize(store))

(***************************************************************************)
(* Pages (TonesPage, PatchesPage, PlayPage) and their load call chains.    *)
(*                                                                         *)
(* A task is one async call chain: ops is the list of load operations it   *)
(* still has to run (the head is the running one), pc says what the        *)
(* running operation awaits:                                               *)
(*   "connect"  await clientRef.current.connect()                          *)
(*   "range"    await clientRef.current.loadToneRange / loadPatchRange,    *)
(*              i items delivered so far                                   *)
(*   "func"     await clientRef.current.requestFunctionParameters()        *)
(*   "next"     the operation has returned; the caller's continuation      *)
(*              (the next loop iteration / then-callback) is queued        *)
(***************************************************************************)
Pages == {"tones", "patches", "play"}

LoadOp(kind, bank, force) == [kind |-> kind, bank |-> bank, force |-> force]
FuncOp == [kind |-> "func", bank |-> 0, force |-> FALSE]

IdleTask == [pc |-> "idle", mount |-> 0, ops |-> <<>>, i |-> 0, skip |-> FALSE]

NoProgress == [shown |-> FALSE, current |-> 0]

TaskIds == 1..MaxTasks
FreeSlots == {id \in TaskIds : tasks[id].pc = "idle"}
NewId == CHOOSE id \in FreeSlots : \A j \in FreeSlots : id <= j

PerBank(kind) == IF kind = "tone" THEN TONES_PER_BANK ELSE PATCHES_PER_BANK

\* the collection the page's auto-load effect looks at
Coll(p) == IF p = "tones" THEN store.tones ELSE store.patches

BankMarked(s, op) ==
    IF op.kind = "tone" THEN isToneBankLoaded(s, op.bank)
    ELSE isPatchBankLoaded(s, op.bank)

\* The S-330 client (createS330Client) as the specification describes it:
\* a range load that is not forced and whose range the client has cached
\* returns at once without a request; otherwise it requests the items in
\* order, reports item i of the range starting at start as index start + i,
\* and rejects at the first item that times out or fails its checksum.
ClientServesFromCache(cache, op) == ~op.force /\ <<op.kind, op.bank>> \in cache
ClientItemIndex(start, i) == start + i
ClientCacheAfterLoad(cache, op) == cache \cup {<<op.kind, op.bank>>}
ClientInvalidate(cache, kinds) == {c \in cache : c[1] \notin kinds}

\* loadInitialData of each page
InitialScript(p) ==
    IF p = "tones" THEN <<LoadOp("tone", 0, FALSE)>>
    ELSE IF p = "patches" THEN <<LoadOp("patch", 0, FALSE), LoadOp("tone", 0, FALSE)>>
    ELSE <<LoadOp("patch", 0, FALSE), FuncOp>>

\* the banks loadAll reloads
LoadAllScript(p) ==
    IF p = "tones" THEN [b \in 1..4 |-> LoadOp("tone", b - 1, TRUE)]
    ELSE [b \in 1..2 |-> LoadOp("patch", b - 1, TRUE)]
         \o [b \in 1..4 |-> LoadOp("tone", b - 1, TRUE)]

\* the banks whose (Re)load button the user clicks: both patch banks and
\* the first two tone banks (the buttons of tone banks 2 and 3 run the same
\* code on another index range)
ClickedBanks == {0, 1}

\* the record the user edits: the editors call setTone / setPatch with the
\* selected index, and treat every index alike
EditedIndices == {0}

\* the (Re)load buttons each page renders
ReloadButtons(p) ==
    IF p = "tones" THEN {LoadOp("tone", b, TRUE) : b \in ToneBanks \cap ClickedBanks}
    ELSE IF p = "patches"
    THEN {LoadOp("patch", b, TRUE) : b \in PatchBanks \cap ClickedBanks}
         \cup {LoadOp("tone", b, TRUE) : b \in ToneBanks \cap ClickedBanks}
    ELSE {LoadOp("patch", b, TRUE) : b \in PatchBanks \cap ClickedBanks}

\* no load has run; the app shows page p as its m-th mount
InitPagesAt(p, m) ==
    /\ isLoading = FALSE
    /\ error = "null"
    /\ loadingProgress = NoProgress
    /\ page = p
    /\ mount = m
    /\ hasInitiatedLoad = FALSE
    /\ isConnected = TRUE
    /\ autoLoads = 0
    /\ tasks = [id \in TaskIds |-> IdleTask]
    /\ clientCache = [k \in 1..MaxMounts |-> {}]
    /\ pageLast = [type |-> "none", task |-> 0, kind |-> "none", bank |-> 0]
    /\ opsBegun = 0
    /\ clicks = 0
    /\ edits = 0
    /\ failures = 0

InitPages == InitPagesAt("none", 0)

Event(type, id, op) == [type |-> type, task |-> id, kind |-> op.kind, bank |-> op.bank]

\* the task after its running operation has returned
NextTask(t) ==
    IF Len(t.ops) > 1
    THEN [t EXCEPT !.pc = "next", !.ops = Tail(t.ops), !.i = 0, !.skip = FALSE]
    ELSE IdleTask

\* loadPatchBank / loadToneBank / loadFunctionParams up to their first await,
\* called by mount m on store state s0
BeginOp(id, m, ops, s0) ==
    LET op == Head(ops)
    IN  /\ isLoading' = TRUE
        /\ IF op.kind = "func"
           THEN /\ error' = error
                /\ store' = s0
                /\ tasks' = [tasks EXCEPT ![id] =
                       [pc |-> "func", mount |-> m, ops |-> ops, i |-> 0, skip |-> FALSE]]
           ELSE /\ error' = "null"
                /\ store' = IF op.kind = "tone" THEN ensureToneArraySize(s0)
                            ELSE ensurePatchArraySize(s0)
                /\ tasks' = [tasks EXCEPT ![id] =
                       [pc |-> "connect", mount |-> m, ops |-> ops, i |-> 0,
                        skip |-> ~op.force /\ BankMarked(s0, op)]]
        /\ opsBegun' = Min(opsBegun + 1, 2)
        /\ pageLast' = Event("begin", id, op)
        /\ UNCHANGED <<loadingProgress, storeLast>>

EffectWantedIgnoresFlag ==
    /\ page \in Pages
    /\ isConnected
    /\ Len(Coll(page)) > 0 \/ ~isLoading

\* the auto-load effect of the mounted page would act
EffectWanted ==
    /\ page \in Pages
    /\ isConnected
    /\ ~hasInitiatedLoad
    /\ Len(Coll(page)) > 0 \/ ~isLoading

\* a user event or a transport event can be handled: no effect and no
\* continuation is waiting to run first
Quiet ==
    /\ ~EffectWanted
    /\ \A id \in TaskIds : tasks[id].pc # "next"

\* useEffect(() => { if (!isConnected || hasInitiatedLoad.current) return; ... })
AutoLoadEffect ==
    /\ EffectWanted
    /\ hasInitiatedLoad' = TRUE
    /\ IF Len(Coll(page)) > 0 /\ page # "play"
       THEN UNCHANGED <<isLoading, error, loadingProgress, tasks, opsBegun,
                        pageLast, store, storeLast, autoLoads>>
       ELSE /\ FreeSlots # {}
            /\ BeginOp(NewId, mount,
                       IF Len(Coll(page)) > 0 THEN <<FuncOp>> ELSE InitialScript(page),
                       store)
            /\ autoLoads' = Min(autoLoads + 1, 2)
    /\ UNCHANGED <<page, mount, isConnected, clientCache, clicks, edits, failures>>

\* const isConnected = status === 'connected' && adapter !== null: the MIDI
\* store reports a connection or the loss of it
ConnectionChanged ==
    /\ Quiet
    /\ page \in Pages
    /\ isConnected' = ~isConnected
    /\ UNCHANGED <<isLoading, error, loadingProgress, page, mount, hasInitiatedLoad,
                   autoLoads, tasks, clientCache, pageLast, opsBegun, clicks, edits,
                   failures, store, storeLast>>

\* the router mounts another page
Navigate(p) ==
    /\ Quiet
    /\ p # page
    /\ mount < MaxMounts
    /\ page' = p
    /\ mount' = mount + 1
    /\ hasInitiatedLoad' = FALSE
    /\ autoLoads' = 0
    /\ UNCHANGED <<isConnected, pageLast, isLoading, error, loadingProgress, tasks, clientCache, opsBegun,
                   clicks, edits, failures, store, storeLast>>

\* onClick={() => loadToneBank(b, true)} / loadPatchBank(b, true), disabled={isLoading}
ClickReload(op) ==
    /\ Quiet
    /\ page \in Pages
    /\ op \in ReloadButtons(page)
    /\ ~isLoading
    /\ clicks < MaxClicks
    /\ FreeSlots # {}
    /\ clicks' = clicks + 1
    /\ BeginOp(NewId, mount, <<op>>, store)
    /\ UNCHANGED <<page, mount, hasInitiatedLoad, isConnected, autoLoads, clientCache, edits, failures>>

\* loadAll: invalidate the client's and the store's caches, then reload every bank
ClickLoadAll ==
    /\ Quiet
    /\ page \in {"tones", "patches"}
    /\ ~isLoading
    /\ clicks < MaxClicks
    /\ FreeSlots # {}
    /\ clicks' = clicks + 1
    /\ clientCache' = [clientCache EXCEPT ![mount] =
           IF page = "tones" THEN ClientInvalidate(@, {"tone"})
           ELSE ClientInvalidate(@, {"patch", "tone"})]
    /\ BeginOp(NewId, mount, LoadAllScript(page),
               IF page = "tones" THEN invalidateToneCache(store)
               ELSE invalidateToneCache(invalidatePatchCache(store)))
    /\ UNCHANGED <<page, mount, hasInitiatedLoad, isConnected, autoLoads, edits, failures>>

\* the empty-state button: onClick={loadInitialData}
ClickLoadInitial ==
    /\ Quiet
    /\ page \in {"tones", "patches"}
    /\ ~isLoading
    /\ LoadedIndices(Coll(page)) = {}
    /\ error = "null"
    /\ clicks < MaxClicks
    /\ FreeSlots # {}
    /\ clicks' = clicks + 1
    /\ BeginOp(NewId, mount, InitialScript(page), store)
    /\ UNCHANGED <<page, mount, hasInitiatedLoad, isConnected, autoLoads, clientCache, edits, failures>>

\* handleToneUpdate / handlePatchUpdate: the editor of a loaded record
EditRecord(i) ==
    /\ Quiet
    /\ page \in {"tones", "patches"}
    /\ i \in LoadedIndices(Coll(page))
    /\ edits < MaxEdits
    /\ edits' = edits + 1
    /\ store' = IF page = "tones" THEN setTone(store, i, "edited")
                ELSE setPatch(store, i, "edited")
    /\ UNCHANGED <<pageLast, isLoading, error, loadingProgress, page, mount, hasInitiatedLoad, isConnected, autoLoads,
                   tasks, clientCache, opsBegun, clicks, failures, storeLast>>

\* the continuation after an operation: the next bank of a loop, the second
\* load of loadInitialData, loadFunctionParams after loadPatchBank(0)
StartNext(id) ==
    /\ ~EffectWanted
    /\ tasks[id].pc = "next"
    /\ BeginOp(id, tasks[id].mount, tasks[id].ops, store)
    /\ UNCHANGED <<page, mount, hasInitiatedLoad, isConnected, autoLoads, clientCache, clicks, edits, failures>>

\* the success path after the range load: mark, clearProgress, setLoading(false)
FinishOp(id, s1) ==
    LET t == tasks[id]
        op == Head(t.ops)
    IN  /\ store' = IF op.kind = "tone" THEN markToneBankLoaded(s1, op.bank)
                    ELSE markPatchBankLoaded(s1, op.bank)
        /\ loadingProgress' = NoProgress
        /\ isLoading' = FALSE
        /\ tasks' = [tasks EXCEPT ![id] = NextTask(t)]
        /\ pageLast' = Event("finish", id, op)
        /\ UNCHANGED <<error, storeLast>>

\* the catch block of a bank load: setError, clearProgress, setLoading(false)
LoadFailedMarksBank(id) ==
    LET t == tasks[id]
        op == Head(t.ops)
    IN  /\ store' = IF op.kind = "tone" THEN markToneBankLoaded(store, op.bank)
                    ELSE markPatchBankLoaded(store, op.bank)
        /\ error' = "set"
        /\ loadingProgress' = NoProgress
        /\ isLoading' = FALSE
        /\ tasks' = [tasks EXCEPT ![id] = NextTask(t)]
        /\ pageLast' = Event("fail", id, op)
        /\ UNCHANGED <<storeLast>>

LoadFailed(id) ==
    LET t == tasks[id]
        op == Head(t.ops)
    IN  /\ error' = "set"
        /\ loadingProgress' = NoProgress
        /\ isLoading' = FALSE
        /\ tasks' = [tasks EXCEPT ![id] = NextTask(t)]
        /\ pageLast' = Event("fail", id, op)
        /\ UNCHANGED <<store, storeLast>>

\* connect() resolves and the range load is called; a client that has the
\* range cached and is not forced returns at once without a request
ConnectResolved(id) ==
    LET t == tasks[id]
        op == Head(t.ops)
    IN  /\ Quiet
        /\ t.pc = "connect"
        /\ IF ClientServesFromCache(clientCache[t.mount], op)
           THEN FinishOp(id, store)
           ELSE /\ tasks' = [tasks EXCEPT ![id].pc = "range"]
                /\ pageLast' = Event("connected", id, op)
                /\ UNCHANGED <<isLoading, error, loadingProgress, store, storeLast>>
        /\ UNCHANGED <<page, mount, hasInitiatedLoad, isConnected, autoLoads, clientCache, opsBegun, clicks, edits, failures>>

\* connect() rejects (transport unavailable)
ConnectRejected(id) ==
    /\ Quiet
    /\ tasks[id].pc = "connect"
    /\ failures < MaxFailures
    /\ failures' = failures + 1
    /\ LoadFailed(id)
    /\ UNCHANGED <<page, mount, hasInitiatedLoad, isConnected, autoLoads, clientCache, opsBegun, clicks, edits>>

\* the response for item i arrives and decodes: onItemLoaded, onProgress;
\* after the last item the range load resolves
ItemLoaded(id) ==
    LET t == tasks[id]
        op == Head(t.ops)
        startIndex == op.bank * PerBank(op.kind)
        index == ClientItemIndex(startIndex, t.i)
        s1 == IF op.kind = "tone" THEN setTone(store, index, "device")
              ELSE setPatch(store, index, "device")
    IN  /\ Quiet
        /\ t.pc = "range"
        /\ IF t.i + 1 < PerBank(op.kind)
           THEN /\ store' = s1
                /\ loadingProgress' = [shown |-> TRUE, current |-> t.i + 1]
                /\ tasks' = [tasks EXCEPT ![id].i = t.i + 1]
                /\ pageLast' = Event("item", id, op)
                /\ UNCHANGED <<isLoading, error, storeLast, clientCache>>
           ELSE /\ FinishOp(id, s1)
                /\ clientCache' = [clientCache EXCEPT ![t.mount] = ClientCacheAfterLoad(@, op)]
        /\ UNCHANGED <<page, mount, hasInitiatedLoad, isConnected, autoLoads, opsBegun, clicks, edits, failures>>

\* the response for item i times out or fails its checksum: the range load throws
ItemFailed(id) ==
    /\ Quiet
    /\ tasks[id].pc = "range"
    /\ failures < MaxFailures
    /\ failures' = failures + 1
    /\ LoadFailed(id)
    /\ UNCHANGED <<page, mount, hasInitiatedLoad, isConnected, autoLoads, clientCache, opsBegun, clicks, edits>>

\* requestFunctionParameters() resolves: setParts, setLoading(false)
FuncResolved(id) ==
    /\ Quiet
    /\ tasks[id].pc = "func"
    /\ isLoading' = FALSE
    /\ tasks' = [tasks EXCEPT ![id] = NextTask(tasks[id])]
    /\ pageLast' = Event("finish", id, Head(tasks[id].ops))
    /\ UNCHANGED <<error, loadingProgress, store, storeLast, page, mount,
                   hasInitiatedLoad, isConnected, autoLoads, clientCache, opsBegun, clicks, edits, failures>>

\* requestFunctionParameters() rejects: setError, setLoading(false)
FuncRejected(id) ==
    /\ Quiet
    /\ tasks[id].pc = "func"
    /\ failures < MaxFailures
    /\ failures' = failures + 1
    /\ error' = "set"
    /\ isLoading' = FALSE
    /\ tasks' = [tasks EXCEPT ![id] = NextTask(tasks[id])]
    /\ pageLast' = Event("fail", id, Head(tasks[id].ops))
    /\ UNCHANGED <<loadingProgress, store, storeLast, page, mount,
                   hasInitiatedLoad, isConnected, autoLoads, clientCache, opsBegun, clicks, edits>>

(***************************************************************************)
(* Zone codec of the tone zone editor: arrayToZones / zonesToArray.        *)
(* Entry i of the array (0-based) is TLA+ element i + 1 and stands for     *)
(* MIDI note MIN_KEY + i.                                                  *)
(***************************************************************************)
\* const offValue = layer === 1 ? -1 : 0
OffValue(l) == IF l = 1 THEN 0 - 1 ELSE 0

Zone(startKey, endKey, tone) == [startKey |-> startKey, endKey |-> endKey, tone |-> tone]

RunEndSingleKey(data, i, currentTone) == i + 1

\* while (i < TOTAL_KEYS && data[i] === currentTone) i++
RECURSIVE RunEnd(_, _, _)
RunEnd(data, i, currentTone) ==
    IF i < TOTAL_KEYS /\ data[i + 1] = currentTone
    THEN RunEnd(data, i + 1, currentTone)
    ELSE i

\* if (currentTone === offValue) { i++; continue }, for a run of unassigned keys
RECURSIVE SkipOff(_, _, _)
SkipOff(data, offValue, i) ==
    IF i < TOTAL_KEYS /\ data[i + 1] = offValue
    THEN SkipOff(data, offValue, i + 1)
    ELSE i

\* the outer while loop of arrayToZones, from index i with the zones pushed so far
RECURSIVE ScanZones(_, _, _, _)
ScanZones(data, offValue, i, acc) ==
    IF ~(i < TOTAL_KEYS) THEN acc
    ELSE LET currentTone == data[i + 1]
         IN  IF currentTone = offValue
             THEN ScanZones(data, offValue, SkipOff(data, offValue, i), acc)
             ELSE LET startKey == MIN_KEY + i
                      j == RunEnd(data, i, currentTone)
                      endKey == MIN_KEY + j - 1
                  IN  ScanZones(data, offValue, j,
                                Append(acc, Zone(startKey, endKey, currentTone)))

arrayToZonesZeroIsOff(data, l) == ScanZones(data, 0, 0, <<>>)

arrayToZones(data, l) == ScanZones(data, OffValue(l), 0, <<>>)

WriteZoneExclusiveEnd(result, zone) ==
    [n \in 1..TOTAL_KEYS |->
        LET key == MIN_KEY + n - 1
        IN  IF zone.startKey <= key /\ key < zone.endKey THEN zone.tone ELSE result[n]]

\* for (let key = zone.startKey; key <= zone.endKey; key++)
\*   if (index >= 0 && index < TOTAL_KEYS) result[index] = zone.tone
WriteZone(result, zone) ==
    [n \in 1..TOTAL_KEYS |->
        LET key == MIN_KEY + n - 1
        IN  IF zone.startKey <= key /\ key <= zone.endKey THEN zone.tone ELSE result[n]]

RECURSIVE WriteZonesReversed(_, _, _)
WriteZonesReversed(result, zs, n) ==
    IF n > Len(zs) THEN result
    ELSE WriteZone(WriteZonesReversed(result, zs, n + 1), zs[n])

\* for (const zone of zones), from the n-th zone on
RECURSIVE WriteZones(_, _, _)
WriteZones(result, zs, n) ==
    IF n > Len(zs) THEN result
    ELSE WriteZones(WriteZone(result, zs[n]), zs, n + 1)

zonesToArray(zs, l) == WriteZones([n \in 1..TOTAL_KEYS |-> OffValue(l)], zs, 1)

\* ---- inputs ----
Layers == {1, 2}

\* tone values of the inputs: the layer's sentinel, the lowest tone above it
\* and the highest tone
InputTones(l) == {OffValue(l), OffValue(l) + 1, MAX_TONE}

\* the arrays given to arrayToZones are constant on each of the index ranges
\* 0, 1, 2, 3..106, 107, 108
SegmentStarts == <<0, 1, 2, 3, 107, 108>>
SegmentOf(i) == Cardinality({k \in 1..Len(SegmentStarts) : SegmentStarts[k] <= i})
InputArrays(l) ==
    {[n \in 1..TOTAL_KEYS |-> pat[SegmentOf(n - 1)]] :
        pat \in [1..Len(SegmentStarts) -> InputTones(l)]}

\* the zones given to zonesToArray start and end at the keys around both
\* ends of the mapping: inside it, across either end, wholly outside it, and
\* one inverted (startKey > endKey)
ZoneRanges ==
    { <<MIN_KEY - 1, MIN_KEY>>, <<MIN_KEY, MIN_KEY>>, <<MIN_KEY, MIN_KEY + 1>>,
      <<MIN_KEY + 1, MIN_KEY + 1>>, <<MIN_KEY + 2, MAX_KEY>>, <<MAX_KEY, MAX_KEY + 1>>,
      <<MAX_KEY + 1, MAX_KEY + 1>>, <<MIN_KEY + 1, MIN_KEY>> }
InputZones(l) == {Zone(r[1], r[2], t) : r \in ZoneRanges, t \in InputTones(l)}
InputZoneLists(l) == SeqsUpTo(InputZones(l), MaxZones)

NoCodecInput == [kind |-> "none", toneData |-> <<>>, zones |-> <<>>]

IdleCodec ==
    /\ layer = 1
    /\ toneData = <<>>
    /\ zones = <<>>
    /\ codecIn = NoCodecInput
    /\ codecCur = "none"
    /\ codecSteps = 0

\* the editor receives a tone array (toneData prop) or holds a zone list
InitCodec ==
    /\ layer \in Layers
    /\ \/ /\ toneData \in InputArrays(layer)
          /\ zones = <<>>
          /\ codecCur = "array"
       \/ /\ zones \in InputZoneLists(layer)
          /\ toneData = <<>>
          /\ codecCur = "zones"
    /\ codecIn = [kind |-> codecCur, toneData |-> toneData, zones |-> zones]
    /\ codecSteps = 0

ApplyArrayToZones ==
    /\ codecCur = "array"
    /\ codecSteps < MaxCodecSteps
    /\ zones' = arrayToZones(toneData, layer)
    /\ codecCur' = "zones"
    /\ codecSteps' = codecSteps + 1
    /\ UNCHANGED <<layer, toneData, codecIn>>

ApplyZonesToArray ==
    /\ codecCur = "zones"
    /\ codecSteps < MaxCodecSteps
    /\ toneData' = zonesToArray(zones, layer)
    /\ codecCur' = "array"
    /\ codecSteps' = codecSteps + 1
    /\ UNCHANGED <<layer, zones, codecIn>>

(***************************************************************************)
(* Change notifications: the DT1 parser of the device library and the      *)
(* parameter listener's handleSysEx.  A message is the decoded view of a   *)
(* complete frame: its command code, the device id it carries, the class   *)
(* of its address and the record index.  Texts are sequences of words.     *)
(***************************************************************************)
DeviceIds == 0..MaxDeviceId
Commands == {"DT1", "RQ1"}
AddressClasses == {"patch", "tone", "ui", "unrecognized"}

Messages ==
    [command : Commands, deviceId : DeviceIds, address : AddressClasses, index : 0..1]

\* s.includes(sub) on texts
Includes(text, sub) ==
    \E k \in 0..(Len(text) - Len(sub)) : SubSeq(text, k + 1, k + Len(sub)) = sub

DeviceIdMismatch == <<"Device", "ID", "mismatch">>

isDT1Message(message) == message.command = "DT1"

\* parse(frame, deviceId) -> {valid, event?, reason?}
parseDT1Message(message, configured) ==
    IF message.command # "DT1"
    THEN [valid |-> FALSE, hasEvent |-> FALSE, hasReason |-> TRUE,
          reason |-> <<"Not", "a", "DT1", "message">>]
    ELSE IF message.deviceId # configured
    THEN [valid |-> FALSE, hasEvent |-> FALSE, hasReason |-> TRUE,
          reason |-> DeviceIdMismatch \o <<"expected", "another", "device">>]
    ELSE IF message.address = "unrecognized"
    THEN [valid |-> FALSE, hasEvent |-> FALSE, hasReason |-> TRUE,
          reason |-> <<"Unrecognized", "address">>]
    ELSE [valid |-> TRUE, hasEvent |-> TRUE, hasReason |-> FALSE,
          reason |-> <<>>, event |-> [type |-> message.address, index |-> message.index]]

\* what one run of handleSysEx did: the texts logged, the events given to
\* notifyHardwareChange and to onParameterChange, and the order of these calls
NoOutput == [logs |-> <<>>, notified |-> <<>>, called |-> <<>>, order |-> <<>>]

Ignored == [NoOutput EXCEPT !.logs = <<"Ignored">>, !.order = <<"log">>]

handleSysExCallbackFirst(message, configured, withCallback) ==
    IF message.command # "DT1" THEN NoOutput
    ELSE IF message.deviceId # configured THEN NoOutput
    ELSE IF message.address = "unrecognized" THEN Ignored
    ELSE LET event == [type |-> message.address, index |-> message.index]
         IN  [logs |-> <<"Parameter change">>,
              notified |-> <<event>>,
              called |-> IF withCallback THEN <<event>> ELSE <<>>,
              order |-> IF withCallback THEN <<"log", "callback", "notify">>
                        ELSE <<"log", "notify">>]

handleSysExLogsEveryReason(message, configured, withCallback) ==
    IF ~isDT1Message(message) THEN NoOutput
    ELSE LET result == parseDT1Message(message, configured)
         IN  IF ~result.valid \/ ~result.hasEvent
             THEN IF result.hasReason
                  THEN Ignored
                  ELSE NoOutput
             ELSE [logs |-> <<"Parameter change">>,
                   notified |-> <<result.event>>,
                   called |-> IF withCallback THEN <<result.event>> ELSE <<>>,
                   order |-> IF withCallback THEN <<"log", "notify", "callback">>
                             ELSE <<"log", "notify">>]

handleSysEx(message, configured, withCallback) ==
    \* if (!isDT1Message(message)) return;
    IF ~isDT1Message(message) THEN NoOutput
    ELSE LET result == parseDT1Message(message, configured)
         IN  IF ~result.valid \/ ~result.hasEvent
             THEN IF result.hasReason /\ ~Includes(result.reason, DeviceIdMismatch)
                  THEN Ignored
                  ELSE NoOutput
             ELSE [logs |-> <<"Parameter change">>,
                   notified |-> <<result.event>>,
                   called |-> IF withCallback THEN <<result.event>> ELSE <<>>,
                   order |-> IF withCallback THEN <<"log", "notify", "callback">>
                             ELSE <<"log", "notify">>]

NoMessage == [command |-> "none", deviceId |-> 0, address |-> "none", index |-> 0]

IdleParam ==
    /\ deviceId = 0
    /\ hasCallback = FALSE
    /\ plMessage = NoMessage
    /\ plOut = NoOutput

InitParam ==
    /\ deviceId \in DeviceIds
    /\ hasCallback \in BOOLEAN
    /\ plMessage = NoMessage
    /\ plOut = NoOutput

\* the adapter hands a complete frame to the registered handleSysEx
HandleSysEx(message) ==
    /\ plMessage' = message
    /\ plOut' = handleSysEx(message, deviceId, hasCallback)
    /\ UNCHANGED <<deviceId, hasCallback>>

(***************************************************************************)
(* Frame checksum: calculateChecksum over the address and data bytes, and  *)
(* the validation of an inbound frame.                                     *)
(***************************************************************************)
RECURSIVE SumBytes(_)
SumBytes(bytes) == IF bytes = <<>> THEN 0 ELSE Head(bytes) + SumBytes(Tail(bytes))

calculateChecksumNoWrap(bytes) == 128 - (SumBytes(bytes) % 128)

calculateChecksum(bytes) == (128 - (SumBytes(bytes) % 128)) % 128

\* recompute over the received address and data bytes and compare
validateChecksum(bytes, checksum) == calculateChecksum(bytes) = checksum

\* 7-bit values of the frames: both ends and the middle of 0..127
SevenBitSamples == {0, 1, 63, 64, 127}

IdleChecksum ==
    /\ ckPayload = <<>>
    /\ ckSum = 0 - 1
    /\ ckReceived = <<>>
    /\ ckValid = "none"

InitChecksum ==
    /\ ckPayload \in SeqsUpTo(SevenBitSamples, MaxPayloadLen)
    /\ ckSum = 0 - 1
    /\ ckReceived = <<>>
    /\ ckValid = "none"

\* the builder appends the checksum of the address and data bytes
BuildFrame ==
    /\ ckSum < 0
    /\ ckSum' = calculateChecksum(ckPayload)
    /\ UNCHANGED <<ckPayload, ckReceived, ckValid>>

Verdict(bytes, checksum) == IF validateChecksum(bytes, checksum) THEN "accepted" ELSE "rejected"

\* the frame comes back unmodified
ReceiveIntact ==
    /\ ckSum >= 0
    /\ ckReceived' = ckPayload
    /\ ckValid' = Verdict(ckPayload, ckSum)
    /\ UNCHANGED <<ckPayload, ckSum>>

\* the frame comes back with byte i replaced by the 7-bit value v
ReceiveCorrupted(i, v) ==
    /\ ckSum >= 0
    /\ i \in 1..Len(ckPayload)
    /\ v # ckPayload[i]
    /\ ckReceived' = [ckPayload EXCEPT ![i] = v]
    /\ ckValid' = Verdict(ckReceived', ckSum)
    /\ UNCHANGED <<ckPayload, ckSum>>

(***************************************************************************)
(* AutoDeployOrchestrator.deploy: one call walks through connect,          *)
(* listConfigurations, the populated slots and the finally block.  Each    *)
(* await is a step at which the awaited promise resolves or rejects.       *)
(***************************************************************************)
SlotKinds == {"empty", "populated"}

\* what a rejected promise carries: an Error, or null / undefined
Thrown == {"Error", "nullish"}

\* the deployers of options.deployers
DeployerCounts == 0..MaxDeployers

\* the outcomes of parameter matching, when it runs
MatchOutcomes == {"matched", "Error", "nullish"}

IdleDeployState ==
    [pc |-> "idle", slots |-> <<>>, calls |-> <<>>, slotResults |-> <<>>,
     pending |-> "none", outcome |-> "none", skipLowConfidence |-> FALSE,
     confident |-> FALSE, numDeployers |-> 0,
     totalSlots |-> 0, populatedSlots |-> 0, slotsProcessed |-> 0, slotsDeployed |-> 0,
     slotIndex |-> 0, deploymentResults |-> <<>>,
     \* ghost: the slots as listed, the deployers called for the slot,
     \* whether one of them threw, and whether an adapter call was rejected
     listed |-> <<>>, deployerCalls |-> 0, deployerThrew |-> FALSE,
     adapterRejected |-> FALSE]

IdleDeploy ==
    /\ deploy = IdleDeployState
    /\ deploys = 0

RECURSIVE SkipEmpty(_)
SkipEmpty(slots) ==
    IF slots # <<>> /\ Head(slots) = "empty" THEN SkipEmpty(Tail(slots)) ELSE slots

FinallyOnlyAfterConnect(d, pending) ==
    IF Len(d.calls) > 1
    THEN [d EXCEPT !.pc = "disconnect", !.pending = pending,
                   !.calls = Append(@, "disconnect")]
    ELSE [d EXCEPT !.pc = "idle", !.pending = pending, !.outcome = "threw"]

\* the try block is left by return or by the rethrow of the catch block:
\* finally { await this.adapter.disconnect(); }
Finally(d, pending) ==
    [d EXCEPT !.pc = "disconnect", !.pending = pending,
              !.calls = Append(@, "disconnect")]

NextSlotSkipsPopulated(d, slots) ==
    LET rest == SkipEmpty(slots)
    IN  IF rest = <<>> \/ Len(d.slotResults) >= 1
        THEN Finally([d EXCEPT !.slots = <<>>], "return")
        ELSE [d EXCEPT !.pc = "read", !.slots = rest,
                       !.slotIndex = d.totalSlots - Len(rest),
                       !.populatedSlots = @ + 1,
                       !.deploymentResults = <<>>,
                       !.deployerCalls = 0, !.deployerThrew = FALSE,
                       !.calls = Append(@, "readConfiguration")]

\* for (const slot of slots): skip the empty slots, count and read the next
\* populated one, return after the last
NextSlot(d, slots) ==
    LET rest == SkipEmpty(slots)
    IN  IF rest = <<>>
        THEN Finally([d EXCEPT !.slots = <<>>], "return")
        ELSE [d EXCEPT !.pc = "read", !.slots = rest,
                       !.slotIndex = d.totalSlots - Len(rest),
                       !.populatedSlots = @ + 1,
                       !.deploymentResults = <<>>,
                       !.deployerCalls = 0, !.deployerThrew = FALSE,
                       !.calls = Append(@, "readConfiguration")]

\* slotResults.push(...) and on to the next slot; failure names the step
\* that failed (ghost, with the deployer counts of the slot)
PushResult(d, success, failure, deploymentResults) ==
    NextSlot([d EXCEPT !.slotResults =
                 Append(@, [slotIndex |-> d.slotIndex, success |-> success,
                            deploymentResults |-> deploymentResults,
                            failure |-> failure,
                            deployerCalls |-> d.deployerCalls,
                            deployerThrew |-> d.deployerThrew])],
             Tail(d.slots))

\* the catch block of the slot: a failed result without deployment results
SlotFailed(d, failure) == PushResult(d, FALSE, failure, <<>>)

AllDeployed(results) == \A i \in 1..Len(results) : results[i]

\* deployToDAWs has returned its results: allDeployed, slotsDeployed++, push
SlotDeployed(d) ==
    PushResult([d EXCEPT !.slotsDeployed =
                   IF AllDeployed(d.deploymentResults) THEN @ + 1 ELSE @],
               AllDeployed(d.deploymentResults), "none", d.deploymentResults)

\* for (const deployer of deployers): call the next one, return after the last
NextDeployer(d) ==
    IF Len(d.deploymentResults) >= d.numDeployers
    THEN SlotDeployed(d)
    ELSE [d EXCEPT !.pc = "deployer", !.deployerCalls = @ + 1]

Deploy(skip, numDeployers) ==
    /\ deploy.pc = "idle"
    /\ deploys < MaxDeploys
    /\ deploys' = deploys + 1
    /\ deploy' = [IdleDeployState EXCEPT !.pc = "connect", !.calls = <<"connect">>,
                                         !.skipLowConfidence = skip,
                                         !.numDeployers = numDeployers]

DeployConnectResolved ==
    /\ deploy.pc = "connect"
    /\ deploy' = [deploy EXCEPT !.pc = "list", !.calls = Append(@, "listConfigurations")]
    /\ UNCHANGED deploys

DeployConnectRejected ==
    /\ deploy.pc = "connect"
    /\ deploy' = Finally([deploy EXCEPT !.adapterRejected = TRUE], "throw")
    /\ UNCHANGED deploys

ListResolved(slots) ==
    /\ deploy.pc = "list"
    /\ deploy' = NextSlot([deploy EXCEPT !.totalSlots = Len(slots), !.listed = slots], slots)
    /\ UNCHANGED deploys

ListRejected ==
    /\ deploy.pc = "list"
    /\ deploy' = Finally([deploy EXCEPT !.adapterRejected = TRUE], "throw")
    /\ UNCHANGED deploys

\* readConfiguration resolves with a configuration or with null; the log
\* line after the await reads config.controls and throws on null, inside
\* the try block of the read
ReadResolved(hasConfig) ==
    /\ deploy.pc = "read"
    /\ deploy' = IF hasConfig THEN [deploy EXCEPT !.pc = "identify"]
                 ELSE SlotFailed(deploy, "read")
    /\ UNCHANGED deploys

ReadRejected ==
    /\ deploy.pc = "read"
    /\ deploy' = SlotFailed(deploy, "read")
    /\ UNCHANGED deploys

IdentifyResolved(confident) ==
    /\ deploy.pc = "identify"
    /\ deploy' = IF ~confident /\ deploy.skipLowConfidence
                 THEN SlotFailed(deploy, "lowConfidence")
                 ELSE [deploy EXCEPT !.pc = "convert", !.confident = confident]
    /\ UNCHANGED deploys

\* converter.convert resolves; parameter matching runs for a confident
\* match. Its catch block reads error.message: a rejection with an Error is
\* logged and the slot goes on, a rejection with null or undefined throws
\* out of the catch block into the catch block of the slot.
ConvertResolved(matching) ==
    /\ deploy.pc = "convert"
    /\ deploy' = IF deploy.confident /\ matching = "nullish"
                 THEN SlotFailed(deploy, "matching")
                 ELSE NextDeployer([deploy EXCEPT !.slotsProcessed = @ + 1])
    /\ UNCHANGED deploys

\* identifyPlugin or convert rejects: the catch block of the slot
SlotStepRejected ==
    /\ deploy.pc \in {"identify", "convert"}
    /\ deploy' = SlotFailed(deploy, IF deploy.pc = "identify" THEN "identify" ELSE "convert")
    /\ UNCHANGED deploys

\* deployer.deploy resolves: results.push({ daw, success: result.success })
DeployerResolved(success) ==
    /\ deploy.pc = "deployer"
    /\ deploy' = NextDeployer([deploy EXCEPT !.deploymentResults = Append(@, success)])
    /\ UNCHANGED deploys

\* deployer.deploy rejects: the catch block pushes { success: false,
\* error: error.message }. Reading error.message of null or undefined throws
\* out of deployToDAWs, into the catch block of the slot.
DeployerRejected(thrown) ==
    /\ deploy.pc = "deployer"
    /\ deploy' = IF thrown = "nullish"
                 THEN SlotFailed([deploy EXCEPT !.deployerThrew = TRUE], "deployer")
                 ELSE NextDeployer([deploy EXCEPT !.deployerThrew = TRUE,
                                                  !.deploymentResults = Append(@, FALSE)])
    /\ UNCHANGED deploys

DisconnectResolved ==
    /\ deploy.pc = "disconnect"
    /\ deploy' = [deploy EXCEPT !.pc = "idle",
                     !.outcome = IF deploy.pending = "return" THEN "returned" ELSE "threw"]
    /\ UNCHANGED deploys

DisconnectRejected ==
    /\ deploy.pc = "disconnect"
    /\ deploy' = [deploy EXCEPT !.pc = "idle", !.outcome = "threw",
                                !.adapterRejected = TRUE]
    /\ UNCHANGED deploys

(***************************************************************************)
(* useMidiLearn: every instance saves the input's onmidimessage handler    *)
(* when its effect runs and puts it back when the effect is cleaned up.    *)
(* A handler is known by the instance and the target of the effect run     *)
(* that created it; owner 0 is the handler the input had at the start.     *)
(***************************************************************************)
LearnInstances == {1, 2}
LearnTargets == {"startKey", "endKey"}
OriginalHandler == [owner |-> 0, target |-> "null"]

NoLearnMessage ==
    [data |-> <<>>, owner |-> 0, before |-> [i \in LearnInstances |-> "null"], calls |-> <<>>]

IdleLearn ==
    /\ learnLast = NoLearnMessage
    /\ learningTarget = [i \in LearnInstances |-> "null"]
    /\ lastLearnedNote = [i \in LearnInstances |-> 0 - 1]
    /\ originalHandlers = [i \in LearnInstances |-> OriginalHandler]
    /\ onmidimessage = OriginalHandler

(***************************************************************************)
(* ToneZoneEditor                                                          *)
(***************************************************************************)
NoEdit == [op |-> "none", prevOp |-> "none", toneData |-> <<>>, prevToneData |-> <<>>,
           applied |-> <<>>, threw |-> FALSE]

IdleEditor ==
    /\ selectedZoneIndex = 0 - 1
    /\ editingZone = <<>>
    /\ edLast = NoEdit
    /\ edSteps = 0

\* const zones = useMemo(() => arrayToZones(toneData, layer), [toneData, layer])
EditorZones == arrayToZones(toneData, layer)

\* the editing panel with its selects and buttons is rendered
PanelShown == editingZone # <<>> /\ selectedZoneIndex >= 0

\* the arrays the editor is opened on: three stretches of keys (12-13, 14-15
\* and 16-120), each unassigned or of one tone
EditorSegmentStarts == <<0, 2, 4>>
EditorSegmentOf(i) ==
    Cardinality({k \in 1..Len(EditorSegmentStarts) : EditorSegmentStarts[k] <= i})
EditorArrays(l) ==
    {[n \in 1..TOTAL_KEYS |-> pat[EditorSegmentOf(n - 1)]] :
        pat \in [1..Len(EditorSegmentStarts) -> InputTones(l)]}

\* the keys and tones chosen in the selects, and the notes played
KeyArgs == {MIN_KEY - 1, MAX_KEY + 1}
ToneArgs == {0, 1}
NoteNumbers == {0, 60, 127}

InitEditor ==
    /\ layer \in Layers
    /\ toneData \in EditorArrays(layer)
    /\ zones = <<>>
    /\ codecIn = NoCodecInput
    /\ codecCur = "none"
    /\ codecSteps = 0
    /\ IdleEditor

EditorFrame == UNCHANGED <<layer, zones, codecIn, codecCur, codecSteps>>

Record(op, applied, threw) ==
    [op |-> op, prevOp |-> edLast.op, toneData |-> toneData,
     prevToneData |-> edLast.toneData, applied |-> applied, threw |-> threw]

clampedStartNoLowerBound(zone, key) == Min(key, zone.endKey)

\* Math.max(MIN_KEY, Math.min(newStartKey, editingZone.endKey))
clampedStart(zone, key) == Max(MIN_KEY, Min(key, zone.endKey))

\* Math.min(MAX_KEY, Math.max(newEndKey, editingZone.startKey))
clampedEnd(zone, key) == Min(MAX_KEY, Max(key, zone.startKey))

handleMidiLearn(zone, target, noteNumber) ==
    IF target = "startKey"
    THEN [zone EXCEPT !.startKey = clampedStart(zone, noteNumber)]
    ELSE [zone EXCEPT !.endKey = clampedEnd(zone, noteNumber)]

\* updatedZones[selectedZoneIndex] = editingZone: replaces the zone at that
\* index, appends at index length; a larger index leaves a hole in the array
updatedZones(zs, index, zone) ==
    IF index < Len(zs) THEN [zs EXCEPT ![index + 1] = zone] ELSE Append(zs, zone)

\* the zone of handleAddZone: the first run of unassigned keys, at most 12
\* keys long, or the top 12 keys when every key is assigned
RECURSIVE FreeRunEnd(_, _, _, _)
FreeRunEnd(data, offValue, i, first) ==
    IF i < TOTAL_KEYS - 1 /\ data[i + 2] = offValue /\ (MIN_KEY + i) - (MIN_KEY + first) < 11
    THEN FreeRunEnd(data, offValue, i + 1, first)
    ELSE i

\* for (let i = 0; i < TOTAL_KEYS; i++) if (toneData[i] === offValue) { ... break }
HasFree(data, offValue) == \E i \in 0..(TOTAL_KEYS - 1) : data[i + 1] = offValue

FirstFree(data, offValue) ==
    CHOOSE i \in 0..(TOTAL_KEYS - 1) :
        data[i + 1] = offValue /\ \A j \in 0..(i - 1) : data[j + 1] # offValue

newZone(data, l) ==
    LET offValue == OffValue(l)
    IN  IF ~HasFree(data, offValue)
        THEN Zone(MAX_KEY - 11, MAX_KEY, 0)
        ELSE LET first == FirstFree(data, offValue)
             IN  Zone(MIN_KEY + first, MIN_KEY + FreeRunEnd(data, offValue, first, first), 0)

HandleZoneClick(index) ==
    LET derived == EditorZones
    IN
    /\ ~(index = selectedZoneIndex /\ editingZone # <<>>)
    /\ index < Len(derived)
    /\ IF selectedZoneIndex = index
       THEN selectedZoneIndex' = 0 - 1 /\ editingZone' = <<>>
       ELSE selectedZoneIndex' = index /\ editingZone' = <<derived[index + 1]>>
    /\ edLast' = Record("zoneClick", <<>>, FALSE)
    /\ UNCHANGED toneData /\ EditorFrame

HandleToneChange(newTone) ==
    /\ PanelShown
    /\ editingZone' = <<[editingZone[1] EXCEPT !.tone = newTone]>>
    /\ edLast' = Record("toneChange", <<>>, FALSE)
    /\ UNCHANGED <<selectedZoneIndex, toneData>> /\ EditorFrame

HandleStartKeyChange(newStartKey) ==
    /\ PanelShown
    /\ editingZone' =
         <<[editingZone[1] EXCEPT !.startKey = clampedStart(editingZone[1], newStartKey)]>>
    /\ edLast' = Record("startKeyChange", <<>>, FALSE)
    /\ UNCHANGED <<selectedZoneIndex, toneData>> /\ EditorFrame

HandleEndKeyChange(newEndKey) ==
    /\ PanelShown
    /\ editingZone' =
         <<[editingZone[1] EXCEPT !.endKey = clampedEnd(editingZone[1], newEndKey)]>>
    /\ edLast' = Record("endKeyChange", <<>>, FALSE)
    /\ UNCHANGED <<selectedZoneIndex, toneData>> /\ EditorFrame

\* zonesToArray iterates over the hole of updatedZones and reads
\* undefined.startKey: the handler throws before onUpdate and the setters
HandleApplyZone ==
    LET derived == EditorZones
    IN
    /\ PanelShown
    /\ IF selectedZoneIndex > Len(derived)
       THEN /\ edLast' = Record("apply", editingZone, TRUE)
            /\ UNCHANGED <<selectedZoneIndex, editingZone, toneData>>
       ELSE /\ toneData' = zonesToArray(
                   updatedZones(derived, selectedZoneIndex, editingZone[1]), layer)
            /\ selectedZoneIndex' = 0 - 1
            /\ editingZone' = <<>>
            /\ edLast' = Record("apply", editingZone, FALSE)
    /\ EditorFrame

HandleCancelEdit ==
    /\ PanelShown
    /\ selectedZoneIndex' = 0 - 1
    /\ editingZone' = <<>>
    /\ edLast' = Record("cancelEdit", <<>>, FALSE)
    /\ UNCHANGED toneData /\ EditorFrame

HandleDeleteZone ==
    LET derived == EditorZones
    IN
    /\ PanelShown
    /\ toneData' = zonesToArray(
           IF selectedZoneIndex < Len(derived) THEN RemoveAt(derived, selectedZoneIndex + 1) ELSE derived,
           layer)
    /\ selectedZoneIndex' = 0 - 1
    /\ editingZone' = <<>>
    /\ edLast' = Record("deleteZone", <<>>, FALSE)
    /\ EditorFrame

HandleAddZone ==
    LET derived == EditorZones
        zone == newZone(toneData, layer)
    IN  /\ selectedZoneIndex' = Len(derived)
        /\ editingZone' = <<zone>>
        /\ toneData' = zonesToArray(Append(derived, zone), layer)
        /\ edLast' = Record("addZone", <<>>, FALSE)
        /\ EditorFrame

\* one more user action on the editor
EditorStep ==
    /\ edSteps < MaxEditorSteps
    /\ edSteps' = edSteps + 1

(***************************************************************************)
(* useMidiLearn actions.  Instance 1 is the hook of the modelled editor,   *)
(* whose Learn buttons sit in the editing panel and whose onLearn is       *)
(* handleMidiLearn; instance 2 belongs to the editor of the other layer.   *)
(***************************************************************************)
EditorInstance == 1

\* return () => { input.onmidimessage = originalHandler ?? null }
cleanup(current, saved) == saved

\* startLearning(target): setLearningTarget, setLastLearnedNote(null); the
\* effect is cleaned up if it was running and runs again: it saves the
\* input's handler and installs its own
StartLearning(i, target) ==
    LET restored == IF learningTarget[i] # "null"
                    THEN cleanup(onmidimessage, originalHandlers[i])
                    ELSE onmidimessage
    IN  /\ i = EditorInstance => PanelShown
        /\ learningTarget[i] # target
        /\ learningTarget' = [learningTarget EXCEPT ![i] = target]
        /\ lastLearnedNote' = [lastLearnedNote EXCEPT ![i] = 0 - 1]
        /\ originalHandlers' = [originalHandlers EXCEPT ![i] = restored]
        /\ onmidimessage' = [owner |-> i, target |-> target]
        /\ learnLast' = NoLearnMessage
        /\ UNCHANGED <<selectedZoneIndex, editingZone, edLast, toneData>> /\ EditorFrame

\* cancelLearning(): setLearningTarget(null); the effect is cleaned up
CancelLearning(i) ==
    /\ i = EditorInstance => PanelShown
    /\ learningTarget[i] # "null"
    /\ learningTarget' = [learningTarget EXCEPT ![i] = "null"]
    /\ onmidimessage' = cleanup(onmidimessage, originalHandlers[i])
    /\ originalHandlers' = [originalHandlers EXCEPT ![i] = OriginalHandler]
    /\ learnLast' = NoLearnMessage
    /\ UNCHANGED <<lastLearnedNote, selectedZoneIndex, editingZone, edLast, toneData>>
    /\ EditorFrame

\* the body of handleMidiMessage for a note-on: clamp the note,
\* setLastLearnedNote, call onLearn with the target of the effect run that
\* created the handler, setLearningTarget(null) and the cleanup that follows
Learned(noteNumber) ==
    LET i == onmidimessage.owner
        clampedNote == Max(MIN_KEY, Min(MAX_KEY, noteNumber))
    IN  /\ lastLearnedNote' = [lastLearnedNote EXCEPT ![i] = clampedNote]
        /\ IF i = EditorInstance /\ editingZone # <<>>
           THEN /\ editingZone' =
                     <<handleMidiLearn(editingZone[1], onmidimessage.target, clampedNote)>>
                /\ edLast' = Record("midiLearn", <<>>, FALSE)
           ELSE UNCHANGED <<editingZone, edLast>>
        /\ learningTarget' = [learningTarget EXCEPT ![i] = "null"]
        /\ IF learningTarget[i] # "null"
           THEN /\ onmidimessage' = cleanup(onmidimessage, originalHandlers[i])
                /\ originalHandlers' = [originalHandlers EXCEPT ![i] = OriginalHandler]
           ELSE UNCHANGED <<onmidimessage, originalHandlers>>
        /\ UNCHANGED <<selectedZoneIndex, toneData>> /\ EditorFrame

\* a note is played on the keyboard while a hook's handler is installed
NoteOn(noteNumber) ==
    /\ onmidimessage.owner # 0
    /\ Learned(noteNumber)
    /\ UNCHANGED learnLast

\* const isNoteOn = (status & 0xf0) === 0x90 && velocity > 0
isNoteOn(data) == (data[1] \div 16) * 16 = 144 /\ data[3] > 0

\* the messages the input delivers: Note On on the first channel for every
\* note played and on the last channel, Note On with velocity 0, Note Off,
\* a note message cut short and a one-byte clock message
MidiMessages ==
    {<<144, n, 100>> : n \in NoteNumbers}
    \cup {<<159, 60, 100>>, <<144, 60, 0>>, <<128, 60, 100>>, <<128, 60, 0>>,
          <<144, 60>>, <<248>>}

\* the input delivers a message to its onmidimessage handler:
\* if (!data || data.length < 3) return; if (isNoteOn) { ... }
HandleMidiMessage(data) ==
    LET handled == onmidimessage.owner # 0 /\ Len(data) >= 3 /\ isNoteOn(data)
    IN  /\ learnLast' =
              [data |-> data, owner |-> onmidimessage.owner, before |-> learningTarget,
               calls |-> IF handled
                         THEN <<[target |-> onmidimessage.target,
                                 note |-> Max(MIN_KEY, Min(MAX_KEY, data[2]))]>>
                         ELSE <<>>]
        /\ IF handled
           THEN Learned(data[2])
           ELSE /\ UNCHANGED <<learningTarget, lastLearnedNote, originalHandlers,
                               onmidimessage, selectedZoneIndex, editingZone, edLast,
                               toneData>>
                /\ EditorFrame

IdleMore == IdleDeploy /\ IdleLearn /\ IdleEditor

\* the subsystems that take no step in the specifications of the others
IdleRest == IdleCodec /\ IdleParam /\ IdleChecksum /\ IdleMore

(***************************************************************************)
(* Specifications                                                          *)
(***************************************************************************)
\* the adapter under arbitrary chunks and listener registrations
InitA == InitAdapter /\ IdleScenario /\ IdleEnvelope /\ InitStore /\ InitPages /\ IdleRest

NextA ==
    \/ \E cb \in Callbacks : OnSysEx(cb) /\ UNCHANGED <<scenarioVars, envVars, storeVars, pageVars, restVars>>
    \/ \E cb \in Callbacks : RemoveSysExListener(cb) /\ UNCHANGED <<scenarioVars, envVars, storeVars, pageVars, restVars>>
    \/ \E data \in SeqsUpTo(Bytes, MaxChunkLen) :
          MidiMessage(data) /\ UNCHANGED <<scenarioVars, envVars, storeVars, pageVars, restVars>>

SpecAdapter == InitA /\ [][NextA]_vars

\* one valid frame delivered in chunks to an Idle adapter with 1 or 2 callbacks
InitF ==
    /\ \E n \in 1..2 :
          /\ inputListeners = [i \in 1..n |->
                 [cb |-> IF i = 1 THEN "cbA" ELSE "cbB", mapped |-> TRUE]]
          /\ listeners = {inputListeners[i].cb : i \in 1..n}
    /\ sysExBuffer = <<>>
    /\ isReceivingSysEx = FALSE
    /\ lastCalls = <<>>
    /\ staleLen = 0
    /\ lastChunk = <<>>
    /\ prevReceiving = FALSE
    /\ InitScenario
    /\ IdleEnvelope
    /\ InitStore
    /\ InitPages
    /\ IdleRest

NextF == \E k \in 1..MaxFrameLen : DeliverChunk(k) /\ UNCHANGED <<envVars, storeVars, pageVars, restVars>>

SpecFrame == InitF /\ [][NextF]_vars

\* the envelope editor under arbitrary point updates
InitE == InitAdapter /\ IdleScenario /\ InitEnvelope /\ InitStore /\ InitPages /\ IdleRest

NextE ==
    \/ \E v \in Args : UpdateSustainPoint(v) /\ UNCHANGED <<adapterVars, scenarioVars, storeVars, pageVars, restVars>>
    \/ \E v \in Args : UpdateEndPoint(v) /\ UNCHANGED <<adapterVars, scenarioVars, storeVars, pageVars, restVars>>

SpecEnvelope == InitE /\ [][NextE]_vars

\* the store under arbitrary direct calls of its actions
InitS == InitAdapter /\ IdleScenario /\ IdleEnvelope /\ InitStore /\ InitPages /\ IdleRest

NextS ==
    /\ \/ StoreSetPatch
       \/ StoreSetTone
       \/ StoreSetPatches
       \/ StoreSetTones
       \/ StoreMarkPatchBank
       \/ StoreMarkToneBank
       \/ StoreInvalidatePatch
       \/ StoreInvalidateTone
       \/ StoreInvalidateAll
       \/ StoreEnsurePatch
       \/ StoreEnsureTone
    /\ UNCHANGED <<adapterVars, scenarioVars, envVars, pageVars, restVars>>

SpecStore == InitS /\ [][NextS]_vars

\* a step of the pages leaves the adapter, the frame scenario and the
\* envelope editor alone
OnlyPages == UNCHANGED <<adapterVars, scenarioVars, envVars, restVars>>

\* the pages: navigation, auto-load effects, buttons, editors and the
\* transport's answers to the running loads
InitP == InitAdapter /\ IdleScenario /\ IdleEnvelope /\ InitStore /\ InitPages /\ IdleRest

NextP ==
    \/ \E p \in Pages : Navigate(p) /\ OnlyPages
    \/ AutoLoadEffect /\ OnlyPages
    \/ \E op \in ReloadButtons("patches") : ClickReload(op) /\ OnlyPages
    \/ ClickLoadAll /\ OnlyPages
    \/ ClickLoadInitial /\ OnlyPages
    \/ \E id \in TaskIds : StartNext(id) /\ OnlyPages
    \/ \E id \in TaskIds : ConnectResolved(id) /\ OnlyPages
    \/ \E id \in TaskIds : ConnectRejected(id) /\ OnlyPages
    \/ \E id \in TaskIds : ItemLoaded(id) /\ OnlyPages
    \/ \E id \in TaskIds : ItemFailed(id) /\ OnlyPages
    \/ \E id \in TaskIds : FuncResolved(id) /\ OnlyPages
    \/ \E id \in TaskIds : FuncRejected(id) /\ OnlyPages

SpecPages == InitP /\ [][NextP]_vars

\* one page stays mounted for the whole session: its auto-load effect, its
\* buttons, its editor and the transport's answers
InitSession ==
    /\ InitAdapter /\ IdleScenario /\ IdleEnvelope /\ InitStore /\ IdleRest
    /\ \E p \in Pages : InitPagesAt(p, 1)

NextSession ==
    \/ AutoLoadEffect /\ OnlyPages
    \/ \E op \in ReloadButtons("patches") : ClickReload(op) /\ OnlyPages
    \/ ClickLoadAll /\ OnlyPages
    \/ ClickLoadInitial /\ OnlyPages
    \/ \E i \in EditedIndices : EditRecord(i) /\ OnlyPages
    \/ \E id \in TaskIds : StartNext(id) /\ OnlyPages
    \/ \E id \in TaskIds : ConnectResolved(id) /\ OnlyPages
    \/ \E id \in TaskIds : ConnectRejected(id) /\ OnlyPages
    \/ \E id \in TaskIds : ItemLoaded(id) /\ OnlyPages
    \/ \E id \in TaskIds : ItemFailed(id) /\ OnlyPages
    \/ \E id \in TaskIds : FuncResolved(id) /\ OnlyPages
    \/ \E id \in TaskIds : FuncRejected(id) /\ OnlyPages

SpecSession == InitSession /\ [][NextSession]_vars

\* the envelope editor's point editing: levels, rates, sustain and end point
InitEP == InitAdapter /\ IdleScenario /\ InitEnvelope /\ InitStore /\ InitPages /\ IdleRest

OnlyEnvelope == UNCHANGED <<adapterVars, scenarioVars, storeVars, pageVars, restVars>>

NextEP ==
    \/ \E i \in PointIndices, v \in PointArgs : UpdateLevel(i, v) /\ OnlyEnvelope
    \/ \E i \in PointIndices, v \in PointArgs : UpdateRate(i, v) /\ OnlyEnvelope
    \/ \E i \in PointIndices, l \in PointArgs, r \in PointArgs :
          UpdateLevelAndRate(i, l, r) /\ OnlyEnvelope
    \/ \E v \in 0..7 : UpdateSustainPoint(v) /\ OnlyEnvelope
    \/ \E v \in 1..8 : UpdateEndPoint(v) /\ OnlyEnvelope

SpecEnvelopePoints == InitEP /\ [][NextEP]_vars

\* the zone codec applied to an input array or an input zone list
OthersIdle ==
    InitAdapter /\ IdleScenario /\ IdleEnvelope /\ InitStore /\ InitPages

OthersUnchanged == UNCHANGED <<adapterVars, scenarioVars, envVars, storeVars, pageVars>>

InitC == OthersIdle /\ InitCodec /\ IdleParam /\ IdleChecksum /\ IdleMore

NextC ==
    \/ ApplyArrayToZones /\ OthersUnchanged /\ UNCHANGED <<paramVars, sumVars, moreVars>>
    \/ ApplyZonesToArray /\ OthersUnchanged /\ UNCHANGED <<paramVars, sumVars, moreVars>>

SpecCodec == InitC /\ [][NextC]_vars

\* the parameter listener handling the frames the adapter delivers
InitL == OthersIdle /\ IdleCodec /\ InitParam /\ IdleChecksum /\ IdleMore

NextL ==
    \E message \in Messages :
        HandleSysEx(message) /\ OthersUnchanged /\ UNCHANGED <<codecVars, sumVars, moreVars>>

SpecListener == InitL /\ [][NextL]_vars

\* a frame is built with its checksum and comes back intact or corrupted
InitK == OthersIdle /\ IdleCodec /\ IdleParam /\ InitChecksum /\ IdleMore

NextK ==
    \/ BuildFrame /\ OthersUnchanged /\ UNCHANGED <<codecVars, paramVars, moreVars>>
    \/ ReceiveIntact /\ OthersUnchanged /\ UNCHANGED <<codecVars, paramVars, moreVars>>
    \/ \E i \in 1..MaxPayloadLen, v \in SevenBitSamples :
          ReceiveCorrupted(i, v) /\ OthersUnchanged /\ UNCHANGED <<codecVars, paramVars, moreVars>>

SpecChecksum == InitK /\ [][NextK]_vars

\* deploy() calls on one orchestrator, one after the other
InitD == OthersIdle /\ IdleRest

OnlyDeploy == OthersUnchanged /\ UNCHANGED <<codecVars, paramVars, sumVars, editorVars, learnVars>>

NextD ==
    \/ \E skip \in BOOLEAN, n \in DeployerCounts : Deploy(skip, n) /\ OnlyDeploy
    \/ DeployConnectResolved /\ OnlyDeploy
    \/ DeployConnectRejected /\ OnlyDeploy
    \/ \E slots \in SeqsUpTo(SlotKinds, MaxSlots) : ListResolved(slots) /\ OnlyDeploy
    \/ ListRejected /\ OnlyDeploy
    \/ \E hasConfig \in BOOLEAN : ReadResolved(hasConfig) /\ OnlyDeploy
    \/ ReadRejected /\ OnlyDeploy
    \/ \E confident \in BOOLEAN : IdentifyResolved(confident) /\ OnlyDeploy
    \/ \E matching \in MatchOutcomes : ConvertResolved(matching) /\ OnlyDeploy
    \/ SlotStepRejected /\ OnlyDeploy
    \/ \E success \in BOOLEAN : DeployerResolved(success) /\ OnlyDeploy
    \/ \E thrown \in Thrown : DeployerRejected(thrown) /\ OnlyDeploy
    \/ DisconnectResolved /\ OnlyDeploy
    \/ DisconnectRejected /\ OnlyDeploy

SpecDeploy == InitD /\ [][NextD]_vars

\* the auto-load effects: navigation, connection changes and the transport's
\* answers to the loads the effects start
InitAL == InitAdapter /\ IdleScenario /\ IdleEnvelope /\ InitStore /\ InitPages /\ IdleRest

NextAL ==
    \/ \E p \in Pages : Navigate(p) /\ OnlyPages
    \/ AutoLoadEffect /\ OnlyPages
    \/ ConnectionChanged /\ OnlyPages
    \/ \E id \in TaskIds : StartNext(id) /\ OnlyPages
    \/ \E id \in TaskIds : ConnectResolved(id) /\ OnlyPages
    \/ \E id \in TaskIds : ConnectRejected(id) /\ OnlyPages
    \/ \E id \in TaskIds : ItemLoaded(id) /\ OnlyPages
    \/ \E id \in TaskIds : ItemFailed(id) /\ OnlyPages
    \/ \E id \in TaskIds : FuncResolved(id) /\ OnlyPages
    \/ \E id \in TaskIds : FuncRejected(id) /\ OnlyPages

SpecAutoLoad == InitAL /\ [][NextAL]_vars

\* one zone editor and its MIDI learn hook
InitZ ==
    /\ OthersIdle /\ IdleParam /\ IdleChecksum /\ IdleDeploy /\ IdleLearn
    /\ InitEditor

OnlyEditor == OthersUnchanged /\ UNCHANGED <<paramVars, sumVars, deployVars>>

NextZ ==
    \/ EditorStep /\ OnlyEditor /\ \E index \in 0..2 : HandleZoneClick(index) /\ UNCHANGED learnVars
    \/ EditorStep /\ OnlyEditor /\ \E t \in ToneArgs : HandleToneChange(t) /\ UNCHANGED learnVars
    \/ EditorStep /\ OnlyEditor /\ \E k \in KeyArgs : HandleStartKeyChange(k) /\ UNCHANGED learnVars
    \/ EditorStep /\ OnlyEditor /\ \E k \in KeyArgs : HandleEndKeyChange(k) /\ UNCHANGED learnVars
    \/ EditorStep /\ OnlyEditor /\ HandleApplyZone /\ UNCHANGED learnVars
    \/ EditorStep /\ OnlyEditor /\ HandleCancelEdit /\ UNCHANGED learnVars
    \/ EditorStep /\ OnlyEditor /\ HandleDeleteZone /\ UNCHANGED learnVars
    \/ EditorStep /\ OnlyEditor /\ HandleAddZone /\ UNCHANGED learnVars
    \/ EditorStep /\ OnlyEditor /\ \E t \in LearnTargets : StartLearning(EditorInstance, t)
    \/ EditorStep /\ OnlyEditor /\ CancelLearning(EditorInstance)
    \/ EditorStep /\ OnlyEditor /\ \E n \in NoteNumbers : NoteOn(n)

SpecZoneEditor == InitZ /\ [][NextZ]_vars

\* the MIDI learn hooks of two zone editors on one MIDI input; the editor of
\* instance 1 is open on one zone over all keys, selected
InitM ==
    /\ OthersIdle /\ IdleParam /\ IdleChecksum /\ IdleDeploy /\ IdleLearn
    /\ layer \in Layers
    /\ toneData = [n \in 1..TOTAL_KEYS |-> 1]
    /\ zones = <<>>
    /\ codecIn = NoCodecInput
    /\ codecCur = "none"
    /\ codecSteps = 0
    /\ selectedZoneIndex = 0
    /\ editingZone = <<EditorZones[1]>>
    /\ edLast = NoEdit
    /\ edSteps = 0

NextM ==
    \/ \E i \in LearnInstances, t \in LearnTargets :
          StartLearning(i, t) /\ OnlyEditor /\ UNCHANGED edSteps
    \/ \E i \in LearnInstances : CancelLearning(i) /\ OnlyEditor /\ UNCHANGED edSteps
    \/ \E data \in MidiMessages : HandleMidiMessage(data) /\ OnlyEditor /\ UNCHANGED edSteps

SpecMidiLearn == InitM /\ [][NextM]_vars

(***************************************************************************)
(* Claims                                                                  *)
(***************************************************************************)

\* C1: a valid frame cut at arbitrary boundaries and delivered to an Idle
\* adapter with one registered callback invokes the callback exactly once,
\* on the last chunk, with the unsplit frame.
C1_ReassemblesOnce ==
    Len(inputListeners) = 1 =>
        /\ pos < Len(frame) => emitted = <<>>
        /\ pos = Len(frame) =>
              /\ Len(emitted) = 1
              /\ emitted[1].cb = inputListeners[1].cb
              /\ emitted[1].data = frame
              /\ lastCalls = emitted

C1_Witness ==
    /\ Len(inputListeners) = 1
    /\ pos = Len(frame)
    /\ Len(frame) = MaxFrameLen
    /\ Len(lastChunk) = 1
    /\ Len(emitted) = 1

\* C2: after a chunk starting with 0xF0 arrives while Receiving, no emitted
\* frame contains a byte that was buffered before that chunk.
C2_NoStaleBytesEmitted ==
    \A i \in 1..Len(lastCalls) : ~lastCalls[i].stale

\* C3: every byte sequence handed to a SysEx callback starts with 0xF0 and
\* ends with 0xF7.
C3_EmittedFramesAreDelimited ==
    \A i \in 1..Len(lastCalls) :
        /\ Len(lastCalls[i].data) >= 2
        /\ lastCalls[i].data[1] = SYSEX_START
        /\ lastCalls[i].data[Len(lastCalls[i].data)] = SYSEX_END

C3_Witness ==
    /\ Len(lastCalls) > 0
    /\ prevReceiving
    /\ Len(lastChunk) > 0
    /\ lastChunk[1] # SYSEX_START
    /\ Len(inputListeners) = 2

\* C8: each invalidate action empties the records and the loaded-bank set of
\* the affected kind in the one store update it makes: in the state the
\* subscribers observe right after the call both are empty.
C8_InvalidateClearsBoth ==
    /\ storeLast.name \in {"invalidatePatchCache", "invalidateAllCache"} =>
          store.patches = <<>> /\ store.loadedPatchBanks = {}
    /\ storeLast.name \in {"invalidateToneCache", "invalidateAllCache"} =>
          store.tones = <<>> /\ store.loadedToneBanks = {}

\* an invalidate call made while records and loaded banks of both kinds existed
C8_Witness ==
    /\ storeLast.name \in {"invalidatePatchCache", "invalidateToneCache", "invalidateAllCache"}
    /\ storeLast.fullBefore

\* C10: after any sequence of updateSustainPoint / updateEndPoint calls the
\* envelope passed to onChange satisfies sustainPoint < endPoint.
C10_SustainBelowEnd == envelope.sustainPoint < envelope.endPoint

\* updateEndPoint lowered endPoint to or below the stored sustainPoint
C10_Witness ==
    /\ envLast.op = "updateEndPoint"
    /\ envLast.before.sustainPoint >= envLast.arg
    /\ envelope.endPoint = envLast.arg
    /\ envelope.sustainPoint = envLast.arg - 1

\* tasks with a request sequence outstanding on the adapter
Outstanding == {id \in TaskIds : tasks[id].pc \in {"connect", "range", "func"}}

\* the latest step was the failure of a bank load
BankLoadFailed == pageLast.type = "fail" /\ pageLast.kind \in {"tone", "patch"}

LoadedBanks(kind) ==
    IF kind = "tone" THEN store.loadedToneBanks ELSE store.loadedPatchBanks

\* C4: at most one device request sequence is outstanding at any time: no
\* page starts a bank load or a function-parameter request while an earlier
\* load has neither resolved nor failed.
C4_SingleOutstanding == Cardinality(Outstanding) <= 1

\* C5 (as stated): when a bank load has failed, the bank is not in the
\* loaded-bank set.
C5_FailedBankNotLoaded ==
    BankLoadFailed => pageLast.bank \notin LoadedBanks(pageLast.kind)

\* C5 (amended): the step in which an item of a bank load fails stores
\* nothing and marks nothing (records and loaded-bank sets are unchanged),
\* reports the error, clears the loading flag and the progress, and ends
\* that load: it awaits no further item.
C5_FailureStopsLoad ==
    [][(failures' = failures + 1 /\ pageLast'.kind \in {"tone", "patch"}) =>
          /\ store' = store
          /\ error' = "set"
          /\ isLoading' = FALSE
          /\ loadingProgress' = NoProgress
          /\ tasks'[pageLast'.task].pc \in {"idle", "next"}
          /\ \A id \in TaskIds \ {pageLast'.task} : tasks'[id] = tasks[id]]_vars

\* a tone bank load has failed after some of its items were stored, and the
\* bank is not marked loaded
C5_Witness ==
    /\ BankLoadFailed
    /\ pageLast.kind = "tone"
    /\ error = "set"
    /\ \E i \in LoadedIndices(store.tones) : i \div TONES_PER_BANK = pageLast.bank
    /\ pageLast.bank \notin store.loadedToneBanks

\* C6: starting from an empty cache, a load of tone bank 0 whose 8 items all
\* arrive ends with exactly the tone entries 0..7 populated and exactly
\* bank 0 in loadedToneBanks.
C6_Bank0Scenario ==
    (opsBegun = 1 /\ pageLast.type = "finish" /\ pageLast.kind = "tone" /\ pageLast.bank = 0)
        => /\ LoadedIndices(store.tones) = 0..(TONES_PER_BANK - 1)
           /\ store.loadedToneBanks = {0}

C6_Witness ==
    /\ opsBegun = 1
    /\ pageLast.type = "finish" /\ pageLast.kind = "tone" /\ pageLast.bank = 0
    /\ page = "tones"
    /\ ~isLoading

\* C7: a bank is in loadedToneBanks (loadedPatchBanks) only if all 8 records
\* of its range are present in tones (patches).
C7_LoadedBanksAreComplete ==
    /\ \A b \in store.loadedToneBanks :
          \A k \in 0..(TONES_PER_BANK - 1) : b * TONES_PER_BANK + k \in LoadedIndices(store.tones)
    /\ \A b \in store.loadedPatchBanks :
          \A k \in 0..(PATCHES_PER_BANK - 1) : b * PATCHES_PER_BANK + k \in LoadedIndices(store.patches)

\* C9: a bank load with forceReload = false for a bank that is marked loaded
\* returns at once: it calls no connect and issues no read request.
C9_LoadedBankLoadIsSilent ==
    \A id \in TaskIds : tasks[id].skip => tasks[id].pc \notin {"connect", "range"}

(***************************************************************************)
(* Zone codec claims (SpecCodec)                                           *)
(***************************************************************************)
Contains(zone, key) == zone.startKey <= key /\ key <= zone.endKey

Keys == MIN_KEY..MAX_KEY

\* C11: for every 109-entry tone array a of a layer,
\* zonesToArray(arrayToZones(a, layer), layer) equals a: whenever the codec
\* holds an array again after starting from an input array, it is that array.
C11_ArrayRoundTrip ==
    (codecIn.kind = "array" /\ codecCur = "array") => toneData = codecIn.toneData

C11_Witness ==
    /\ codecIn.kind = "array" /\ codecCur = "array" /\ codecSteps = 2
    /\ Len(zones) >= 3
    /\ \E n \in 1..TOTAL_KEYS : codecIn.toneData[n] = OffValue(layer)

\* the zone lists C12 speaks of: sorted by key, pairwise non-overlapping,
\* within keys 12..120, tones allowed for the layer
SortedByKey(zs) ==
    \A i, j \in 1..Len(zs) : i < j => zs[i].startKey <= zs[j].startKey

NonOverlapping(zs) ==
    \A i, j \in 1..Len(zs) :
        i < j => ~\E key \in (MIN_KEY - 1)..(MAX_KEY + 1) : Contains(zs[i], key) /\ Contains(zs[j], key)

WithinKeys(zs) ==
    \A i \in 1..Len(zs) : zs[i].startKey \in Keys /\ zs[i].endKey \in Keys

TonesAllowed(zs, l) ==
    \A i \in 1..Len(zs) : zs[i].tone \in OffValue(l)..MAX_TONE

RoundTripZones(zs, l) ==
    SortedByKey(zs) /\ NonOverlapping(zs) /\ WithinKeys(zs) /\ TonesAllowed(zs, l)

\* what an array can hold of a zone list: no empty (inverted) zone, no zone
\* of the sentinel tone, no two touching zones of the same tone
Representable(zs, l) ==
    /\ \A i \in 1..Len(zs) : zs[i].startKey <= zs[i].endKey /\ zs[i].tone # OffValue(l)
    /\ \A i, j \in 1..Len(zs) :
          zs[i].endKey + 1 = zs[j].startKey => zs[i].tone # zs[j].tone

\* C12 as stated: for every zone list that is sorted by key, pairwise
\* non-overlapping, within keys 12..120 and of tones allowed for the layer,
\* arrayToZones(zonesToArray(zs, layer), layer) equals zs.
C12_ZoneRoundTripAsStated ==
    (codecIn.kind = "zones" /\ codecCur = "zones" /\ RoundTripZones(codecIn.zones, layer))
        => zones = codecIn.zones

\* C12 (amended): for every such zone list in which, in addition, every zone
\* has startKey <= endKey and a tone other than the layer's sentinel, and no
\* two touching zones have the same tone, the round trip zone list -> array
\* -> zone list gives back the list.
C12_ZoneRoundTrip ==
    (/\ codecIn.kind = "zones" /\ codecCur = "zones"
     /\ RoundTripZones(codecIn.zones, layer)
     /\ Representable(codecIn.zones, layer))
        => zones = codecIn.zones

C12_Witness ==
    /\ codecIn.kind = "zones" /\ codecCur = "zones" /\ codecSteps = 2
    /\ RoundTripZones(codecIn.zones, layer)
    /\ Representable(codecIn.zones, layer)
    /\ Len(codecIn.zones) = 2
    /\ codecIn.zones[1].endKey + 1 = codecIn.zones[2].startKey

\* C13: for any zone list, zonesToArray returns a 109-entry array in which
\* each key k in 12..120 holds the tone of the last zone in list order whose
\* range contains k, or the layer's sentinel when no zone contains k; keys
\* outside 12..120 are ignored.
LastZoneWith(zs, key) ==
    LET with == {i \in 1..Len(zs) : Contains(zs[i], key)}
    IN  IF with = {} THEN 0 ELSE CHOOSE i \in with : \A j \in with : j <= i

C13_LastWriteWins ==
    (codecIn.kind = "zones" /\ codecSteps = 1) =>
        /\ Len(toneData) = TOTAL_KEYS
        /\ \A key \in Keys :
              LET last == LastZoneWith(codecIn.zones, key)
              IN  toneData[key - MIN_KEY + 1] =
                      IF last = 0 THEN OffValue(layer) ELSE codecIn.zones[last].tone

C13_Witness ==
    /\ codecIn.kind = "zones" /\ codecSteps = 1
    /\ Len(codecIn.zones) = 2
    /\ codecIn.zones[1].startKey < MIN_KEY
    /\ Contains(codecIn.zones[1], MIN_KEY) /\ Contains(codecIn.zones[2], MIN_KEY)
    /\ codecIn.zones[1].tone # codecIn.zones[2].tone
    /\ toneData[1] = codecIn.zones[2].tone

\* C14: arrayToZones returns, in ascending key order, exactly the maximal
\* runs of identical non-sentinel values of the array: the zones are pairwise
\* disjoint, every non-sentinel key lies in exactly one zone whose tone is
\* that key's value, no sentinel key lies in any zone, and two touching zones
\* have different tones.
ValueAt(data, key) == data[key - MIN_KEY + 1]

C14_MaximalRuns ==
    (codecIn.kind = "array" /\ codecSteps = 1) =>
        LET a == codecIn.toneData
        IN  /\ \A i \in 1..Len(zones) :
                  /\ zones[i].startKey \in Keys /\ zones[i].endKey \in Keys
                  /\ zones[i].startKey <= zones[i].endKey
               \* ascending and pairwise disjoint
            /\ \A i, j \in 1..Len(zones) : i < j => zones[i].endKey < zones[j].startKey
            /\ \A key \in Keys :
                  LET with == {i \in 1..Len(zones) : Contains(zones[i], key)}
                  IN  IF ValueAt(a, key) = OffValue(layer)
                      THEN with = {}
                      ELSE /\ Cardinality(with) = 1
                           /\ \A i \in with : zones[i].tone = ValueAt(a, key)
            /\ \A i, j \in 1..Len(zones) :
                  zones[i].endKey + 1 = zones[j].startKey => zones[i].tone # zones[j].tone

C14_Witness ==
    /\ codecIn.kind = "array" /\ codecSteps = 1
    /\ Len(zones) >= 3
    /\ \E i \in 1..(Len(zones) - 1) : zones[i].endKey + 1 = zones[i + 1].startKey
    /\ \E i \in 1..(Len(zones) - 1) : zones[i].endKey + 1 < zones[i + 1].startKey
    /\ zones[Len(zones)].endKey = MAX_KEY

(***************************************************************************)
(* Listener removal and idle chunks (SpecAdapter)                          *)
(***************************************************************************)
\* C15: after removeSysExListener(cb) returns, cb is not invoked for any
\* later chunk until it is registered again: every callback a chunk invokes
\* is registered at that time.
C15_RemovedCallbackNotInvoked ==
    \A i \in 1..Len(lastCalls) : lastCalls[i].cb \in listeners

\* C19: while the adapter is Idle, a chunk whose first byte is not the start
\* marker 0xF0, or an empty chunk, invokes no callback and leaves the
\* reassembly buffer and the receiving flag unchanged.
NotAStart(data) == data = <<>> \/ data[1] # SYSEX_START

C19_IdleChunkIgnored ==
    [][(~isReceivingSysEx /\ NotAStart(lastChunk'))
          => /\ lastCalls' = <<>>
             /\ sysExBuffer' = sysExBuffer
             /\ isReceivingSysEx' = isReceivingSysEx]_vars

C19_Witness ==
    /\ prevReceiving = FALSE
    /\ lastChunk # <<>>
    /\ lastChunk[1] # SYSEX_START
    /\ lastChunk[Len(lastChunk)] = SYSEX_END
    /\ Len(inputListeners) = MaxListeners
    /\ lastCalls = <<>>
    /\ ~isReceivingSysEx

C17_LevelsAndRatesInRange ==
    \A i \in 1..8 : envelope.levels[i] \in 0..127 /\ envelope.rates[i] \in 1..127

\* C18: updateEndPoint and updateSustainPoint leave all 8 levels and all 8
\* rates unchanged, those at indices at or beyond the end point included.
C18_PointsKeepLevelsAndRates ==
    envLast.op \in {"updateEndPoint", "updateSustainPoint"} =>
        /\ envelope.levels = envLast.before.levels
        /\ envelope.rates = envLast.before.rates

C18_Witness ==
    /\ envLast.op = "updateEndPoint"
    /\ envelope.endPoint < envLast.before.endPoint
    /\ envelope.endPoint < 8
    /\ envelope.levels[8] # InitLevels[8]
    /\ envelope.rates[8] # InitRates[8]

(***************************************************************************)
(* Frame checksum (SpecChecksum)                                           *)
(***************************************************************************)
\* C20: the checksum c of the address and data bytes is
\* (128 - (sum mod 128)) mod 128, lies in 0..127 and makes (sum + c) mod 128
\* zero; validation accepts the unmodified frame and rejects the frame in
\* which one address or data byte is replaced by a different 7-bit value.
C20_ChecksumDetectsOneByte ==
    ckSum >= 0 =>
        /\ ckSum = (128 - (SumBytes(ckPayload) % 128)) % 128
        /\ ckSum \in 0..127
        /\ (SumBytes(ckPayload) + ckSum) % 128 = 0
        /\ ckValid # "none" => (ckValid = "accepted" <=> ckReceived = ckPayload)

C20_Witness ==
    /\ ckSum = 0
    /\ Len(ckPayload) >= 2
    /\ SumBytes(ckPayload) > 0
    /\ ckValid = "rejected"
    /\ \E i \in 1..Len(ckPayload) :
          /\ ckReceived[i] # ckPayload[i]
          /\ \A j \in 1..Len(ckPayload) : j # i => ckReceived[j] = ckPayload[j]

(***************************************************************************)
(* Several callbacks on one adapter (SpecFrame)                            *)
(***************************************************************************)
CallsTo(calls, cb) == {i \in 1..Len(calls) : calls[i].cb = cb}

\* C21: with two or more callbacks registered on the same adapter, a frame
\* that arrives split across several chunks is delivered to every registered
\* callback exactly once and byte-for-byte equal to the unsplit frame.
C21_EveryCallbackGetsFrameOnce ==
    (Len(inputListeners) >= 2 /\ pos = Len(frame) /\ Len(lastChunk) < Len(frame)) =>
        \A cb \in listeners :
            /\ Cardinality(CallsTo(emitted, cb)) = 1
            /\ \A i \in CallsTo(emitted, cb) : emitted[i].data = frame

\* C22: while Receiving, a chunk that does not start with 0xF0 is appended
\* to the buffer in arrival order; if its last byte is 0xF7 the buffered
\* bytes are emitted once (no callback receives them twice) and the adapter
\* returns to Idle with an empty buffer, otherwise nothing is emitted and the
\* adapter stays Receiving.
EndsFrame(data) == data # <<>> /\ data[Len(data)] = SYSEX_END

C22_ReceivingChunkAppended ==
    [][(isReceivingSysEx /\ NotAStart(lastChunk')) =>
          IF EndsFrame(lastChunk')
          THEN /\ lastCalls' # <<>>
               /\ \A cb \in listeners : Cardinality(CallsTo(lastCalls', cb)) <= 1
               /\ \A i \in 1..Len(lastCalls') :
                     lastCalls'[i].data = sysExBuffer \o lastChunk'
               /\ sysExBuffer' = <<>>
               /\ ~isReceivingSysEx'
          ELSE /\ lastCalls' = <<>>
               /\ sysExBuffer' = sysExBuffer \o lastChunk'
               /\ isReceivingSysEx']_vars

(***************************************************************************)
(* How bank loads end (SpecPages, SpecSession)                             *)
(***************************************************************************)
\* C23: every bank load that has set isLoading to true finishes, on success
\* and on failure alike, with isLoading false and the progress indicator
\* cleared, and after it finishes the error message is non-null if and only
\* if that load failed.
BankLoadEnded == pageLast.type \in {"finish", "fail"} /\ pageLast.kind \in {"tone", "patch"}

C23_LoadEndsCleanly ==
    BankLoadEnded =>
        /\ ~isLoading
        /\ loadingProgress = NoProgress
        /\ error # "null" <=> pageLast.type = "fail"

\* C24: if the load of any bank fails during Load All, an error message is
\* still set when Load All has finished.  Load All is the only script that
\* loads tone bank 3, and that bank is its last; it starts by clearing the
\* loaded-bank sets it reloads, and every bank that loads marks itself, so a
\* bank that is unmarked when Load All has finished is one whose load failed.
LoadAllFinished ==
    /\ page \in {"tones", "patches"}
    /\ pageLast.type \in {"finish", "fail"}
    /\ pageLast.kind = "tone" /\ pageLast.bank = 3

BankFailedDuringLoadAll ==
    \/ store.loadedToneBanks # ToneBanks
    \/ page = "patches" /\ store.loadedPatchBanks # PatchBanks

C24_LoadAllKeepsError ==
    (LoadAllFinished /\ BankFailedDuringLoadAll) => error # "null"

(***************************************************************************)
(* What the parameter listener does with each frame (SpecListener)         *)
(***************************************************************************)
Position(seq, x) ==
    IF \E i \in 1..Len(seq) : seq[i] = x
    THEN CHOOSE i \in 1..Len(seq) : seq[i] = x /\ \A j \in 1..(i - 1) : seq[j] # x
    ELSE 0

\* C29: for each complete frame delivered to the parameter listener,
\* notifyHardwareChange(type, index) is called exactly once if and only if
\* the frame is a DT1 message that parses to a valid event, and it is called
\* before the optional onParameterChange callback; for every other frame
\* neither is called.
C29_NotifyOncePerValidEvent ==
    plMessage # NoMessage =>
        LET result == parseDT1Message(plMessage, deviceId)
        IN  IF isDT1Message(plMessage) /\ result.valid /\ result.hasEvent
            THEN /\ plOut.notified = <<result.event>>
                 /\ plOut.called = IF hasCallback THEN <<result.event>> ELSE <<>>
                 /\ Len(SelectSeq(plOut.order, LAMBDA e : e = "notify")) = 1
                 /\ hasCallback =>
                       /\ Position(plOut.order, "callback") > 0
                       /\ Position(plOut.order, "notify") < Position(plOut.order, "callback")
            ELSE /\ plOut.notified = <<>>
                 /\ plOut.called = <<>>
                 /\ \A i \in 1..Len(plOut.order) : plOut.order[i] \notin {"notify", "callback"}

C29_Witness ==
    /\ plMessage.command = "DT1"
    /\ plMessage.deviceId = deviceId
    /\ plMessage.address = "patch"
    /\ plMessage.index = 1
    /\ hasCallback
    /\ plOut.order = <<"log", "notify", "callback">>
    /\ plOut.notified = <<[type |-> "patch", index |-> 1]>>

(***************************************************************************)
(* The adapter is released after every deploy (SpecDeploy)                 *)
(***************************************************************************)
Count(seq, x) == Cardinality({i \in 1..Len(seq) : seq[i] = x})

\* C30: every call to deploy issues exactly one adapter.disconnect(), after
\* all other adapter calls of that deploy, whether deploy returns a result
\* or throws: no disconnect is issued before the finally block, and a deploy
\* that has ended has issued exactly one, as its last adapter call.
C30_DisconnectsOnceAtEnd ==
    /\ deploy.pc \notin {"idle", "disconnect"} => Count(deploy.calls, "disconnect") = 0
    /\ (deploy.pc = "disconnect" \/ deploy.outcome # "none") =>
          /\ Count(deploy.calls, "disconnect") = 1
          /\ deploy.calls[Len(deploy.calls)] = "disconnect"

C30_Witness ==
    /\ deploy.outcome = "threw"
    /\ deploy.calls = <<"connect", "disconnect">>
    /\ deploys = 2

(***************************************************************************)
(* MIDI learn handlers (SpecMidiLearn)                                     *)
(***************************************************************************)
\* C28: whenever no useMidiLearn instance is in learning mode, the MIDI
\* input's onmidimessage handler equals the handler it had before any
\* learning started.
C28_HandlerRestored ==
    (\A i \in LearnInstances : learningTarget[i] = "null") => onmidimessage = OriginalHandler

(***************************************************************************)
(* Zone editor (SpecZoneEditor)                                            *)
(***************************************************************************)
KeyIndices == 1..TOTAL_KEYS

\* C25: with at least one key unassigned, Add Zone followed directly by
\* Apply leaves every key that belonged to a zone before Add Zone mapped to
\* the same tone as before.
C25_AddThenApplyKeepsZones ==
    (/\ edLast.op = "apply"
     /\ edLast.prevOp = "addZone"
     /\ \E n \in KeyIndices : edLast.prevToneData[n] = OffValue(layer))
    => \A n \in KeyIndices :
          edLast.prevToneData[n] # OffValue(layer) => toneData[n] = edLast.prevToneData[n]

\* C26: after Apply, every key in the applied zone's range is mapped to the
\* applied zone's tone in the array passed to onUpdate.
C26_AppliedRangeHasTone ==
    (edLast.op = "apply" /\ ~edLast.threw)
    => \A n \in KeyIndices :
          (/\ edLast.applied[1].startKey <= MIN_KEY + n - 1
           /\ MIN_KEY + n - 1 <= edLast.applied[1].endKey)
          => toneData[n] = edLast.applied[1].tone

\* C27: the edited zone satisfies MIN_KEY <= startKey <= endKey <= MAX_KEY
\* after any start-key change, end-key change and MIDI-learn assignment.
C27_EditedZoneInRange ==
    editingZone # <<>>
    => /\ MIN_KEY <= editingZone[1].startKey
       /\ editingZone[1].startKey <= editingZone[1].endKey
       /\ editingZone[1].endKey <= MAX_KEY

\* a note above the keyboard was learned as the end key of the edited zone
C27_Witness ==
    /\ editingZone # <<>>
    /\ edLast.op = "midiLearn"
    /\ lastLearnedNote[EditorInstance] = MAX_KEY
    /\ editingZone[1].endKey = MAX_KEY
    /\ editingZone[1].startKey < MAX_KEY

(***************************************************************************)
(* Slot results of a deploy (SpecDeploy)                                   *)
(***************************************************************************)
PopulatedIndices(listed) == {i \in 1..Len(listed) : listed[i] = "populated"}

\* C31: a failure while reading, identifying, converting or deploying one
\* slot, and an exception thrown by one DAW deployer, is recorded in that
\* slot's result with success = false; the remaining deployers of the slot
\* are still called and the remaining slots still processed, and deploy
\* does not throw for such failures.
C31_FailuresStayInSlot ==
    /\ \A i \in 1..Len(deploy.slotResults) :
          LET r == deploy.slotResults[i]
          IN  /\ (r.failure # "none" \/ r.deployerThrew) => ~r.success
              /\ r.deployerThrew => r.deployerCalls = deploy.numDeployers
    /\ (deploy.outcome # "none" /\ ~deploy.adapterRejected) =>
          /\ deploy.outcome = "returned"
          /\ Len(deploy.slotResults) = Cardinality(PopulatedIndices(deploy.listed))

\* C32: when deploy returns, slotResults holds exactly one result for each
\* non-empty slot, in slot order, and none for empty slots:
\* slotResults.length = populatedSlots and
\* slotsDeployed <= slotsProcessed <= populatedSlots <= totalSlots.
C32_OneResultPerPopulatedSlot ==
    deploy.outcome = "returned" =>
        /\ Len(deploy.slotResults) = deploy.populatedSlots
        /\ {deploy.slotResults[i].slotIndex + 1 : i \in 1..Len(deploy.slotResults)}
              = PopulatedIndices(deploy.listed)
        /\ \A i, j \in 1..Len(deploy.slotResults) :
              i < j => deploy.slotResults[i].slotIndex < deploy.slotResults[j].slotIndex
        /\ deploy.slotsDeployed <= deploy.slotsProcessed
        /\ deploy.slotsProcessed <= deploy.populatedSlots
        /\ deploy.populatedSlots <= deploy.totalSlots
        /\ deploy.totalSlots = Len(deploy.listed)

\* a deploy returned after two populated slots, one deployed and one that
\* failed before deployment
C32_Witness ==
    /\ deploy.outcome = "returned"
    /\ deploy.populatedSlots = 2
    /\ deploy.slotsProcessed = 1
    /\ deploy.slotsDeployed = 1
    /\ ~deploy.slotResults[1].success

(***************************************************************************)
(* Auto-load effects (SpecAutoLoad)                                        *)
(***************************************************************************)
\* the effect of the mounted page sets hasInitiatedLoad without starting a load
EffectSkipsLoad ==
    /\ ~hasInitiatedLoad
    /\ hasInitiatedLoad'
    /\ autoLoads' = autoLoads

\* C33: the Tones page skips its automatic initial load only when at least
\* one tone record is present in the store.
C33_SkipOnlyWithToneRecords ==
    [][(page = "tones" /\ EffectSkipsLoad) => LoadedIndices(store.tones) # {}]_vars

\* C34: during one mount of a page the auto-load effect starts the initial
\* load at most once, whatever the connection status, the loading flag and
\* the store do.
C34_AutoLoadAtMostOnce == autoLoads <= 1

\* the load the effect started has failed: the page is connected and idle
\* again, its store and loading flag have changed, and it has not loaded anew
C34_Witness ==
    /\ autoLoads = 1
    /\ isConnected
    /\ ~isLoading
    /\ error # "null"
    /\ pageLast.type # "begin"
    /\ \A id \in TaskIds : tasks[id].pc = "idle"

(***************************************************************************)
(* Effect of the two point setters (SpecEnvelope)                          *)
(***************************************************************************)
\* C35: updateEndPoint(v) sets endPoint to exactly v and changes
\* sustainPoint only when sustainPoint >= v, lowering it to v - 1;
\* updateSustainPoint(v) never changes endPoint and stores
\* min(v, endPoint - 1) as sustainPoint.
C35_PointSetterEffects ==
    /\ envLast.op = "updateEndPoint" =>
          /\ envelope.endPoint = envLast.arg
          /\ envelope.sustainPoint =
                IF envLast.before.sustainPoint >= envLast.arg
                THEN envLast.arg - 1
                ELSE envLast.before.sustainPoint
    /\ envLast.op = "updateSustainPoint" =>
          /\ envelope.endPoint = envLast.before.endPoint
          /\ envelope.sustainPoint =
                IF envLast.arg <= envLast.before.endPoint - 1
                THEN envLast.arg
                ELSE envLast.before.endPoint - 1

\* updateSustainPoint was called with a value at or above endPoint
C35_Witness ==
    /\ envLast.op = "updateSustainPoint"
    /\ envLast.arg >= envLast.before.endPoint
    /\ envelope.sustainPoint = envLast.before.endPoint - 1

(***************************************************************************)
(* Messages handled while learning (SpecMidiLearn)                         *)
(***************************************************************************)
\* C36: while a target is being learned, a Note On message (status
\* 0x90-0x9F) with velocity > 0 calls onLearn with that target and the note
\* number clamped into [minKey, maxKey] and ends learning mode; Note Off,
\* Note On with velocity 0 and messages shorter than 3 bytes call nothing
\* and leave learning mode unchanged.  Stated for the hook whose handler
\* received the message.
C36_NoteOnLearnsTarget ==
    (/\ learnLast.data # <<>>
     /\ learnLast.owner # 0
     /\ learnLast.before[learnLast.owner] # "null")
    => IF /\ Len(learnLast.data) >= 3
          /\ learnLast.data[1] \in 144..159
          /\ learnLast.data[3] > 0
       THEN /\ Len(learnLast.calls) = 1
            /\ learnLast.calls[1].target = learnLast.before[learnLast.owner]
            /\ learnLast.calls[1].note >= MIN_KEY
            /\ learnLast.calls[1].note <= MAX_KEY
            /\ learnLast.data[2] \in MIN_KEY..MAX_KEY =>
                  learnLast.calls[1].note = learnLast.data[2]
            /\ learningTarget[learnLast.owner] = "null"
       ELSE /\ learnLast.calls = <<>>
            /\ learningTarget = learnLast.before

====
